---- MODULE Spec2Model ----
(***************************************************************************)
(* Model of github.com/fogfish/curie/v2: the CURIE value algebra           *)
(* (src/curie.go, second revision, lines 309-599), the segment reference   *)
(* utility (src/internal/reference/reference.go lines 1-68) and the        *)
(* percent-decoding normalizer (src/codec.go).                             *)
(*                                                                         *)
(* Text is a sequence of bytes (integers 0..255), exactly as a Go string.  *)
(* Go offsets are kept: positions are 0-based, "not found" is -1, and      *)
(* Slice(s, lo, hi) is the Go expression s[lo:hi].                         *)
(***************************************************************************)
EXTENDS Integers, Sequences, FiniteSets, TLC

VARIABLES iri, uri, ns, call, release

vars == <<iri, uri, ns, call, release>>

(***************************************************************************)
(* The toolchain.  The repository names no Go release (there is no go.mod  *)
(* under src/); its tests need Go 1.18.  Four functions of the standard    *)
(* library that its code calls changed between Go 1.18 and Go 1.25:        *)
(*   url.Parse          sets URL.OmitHost, which String reads, from Go     *)
(*                      1.19 on; Go 1.18 has no such field;                *)
(*   unicode.IsGraphic  the tables of Unicode 13.0.0 up to Go 1.20, those  *)
(*                      of Unicode 15.0.0 from Go 1.21 on;                 *)
(*   json.Marshal       \u0008 and \u000c for the bytes 0x08 and 0x0c up   *)
(*                      to Go 1.21, \b and \f from Go 1.22 on;             *)
(*   url.Parse          any text between the brackets of a host that    *)
(*                      starts with '[' up to Go 1.24.7 and 1.25.1; an     *)
(*                      IPv6 address only, after the last '[' of the       *)
(*                      host, from Go 1.24.8 and 1.25.2 to Go 1.25.7, of   *)
(*                      which Go 1.24.8, 1.24.9, 1.25.2 and 1.25.3 refuse  *)
(*                      an IPv4-mapped address; an IPv6 address only, and  *)
(*                      no '[' but as the first byte of the host, from Go  *)
(*                      1.25.8 on.                                         *)
(* release is the toolchain the program was built with: it is drawn when a *)
(* behaviour starts and never changes.  Each value stands for the releases *)
(* that agree on the four functions: "go1.18" for Go 1.18, "go1.20" for Go *)
(* 1.19 and 1.20, "go1.21" for Go 1.21, "go1.22" for Go 1.22 to 1.24.7 and *)
(* 1.25.0 to 1.25.1, "go1.25.2" for Go 1.24.8, 1.24.9, 1.25.2 and 1.25.3,  *)
(* "go1.25.4" for Go 1.24.10 and the later releases of Go 1.24 and for Go  *)
(* 1.25.4 to 1.25.7, "go1.25.8" for Go 1.25.8 and the later releases of Go *)
(* 1.25.                                                                   *)
(***************************************************************************)
GoReleases ==
  {"go1.18", "go1.20", "go1.21", "go1.22", "go1.25.2", "go1.25.4", "go1.25.8"}

(***************************************************************************)
(* Bounds of the model.                                                    *)
(***************************************************************************)
\* longest CURIE text of the algebra specification
MaxLen == 4
\* largest number of segments handed to Join, largest n handed to Cut
MaxSegs == 2
\* longest JSON string value handed to UnmarshalJSON
MaxJsonLen == 4
\* longest reference of the namespace specification that is drawn from
\* every text over its alphabet; the references drawn for the tables with
\* other keys and stems are one byte shorter
MaxRefLen == 3
\* longest input of Decode
MaxUriLen == 4

\* the longest text compared by Lt
MaxOrdLen == 3

\* Cut is handed the counts -MaxNeg..MaxSegs
MaxNeg == 2

\* the longest name-specific string and the longest reference of the URN
\* specification
MaxUrnLen == 3

(***************************************************************************)
(* Bytes the code names.                                                   *)
(***************************************************************************)
Colon == 58
Slash == 47
LBracket == 91
RBracket == 93
Percent == 37
Quote == 34
Backslash == 92

(***************************************************************************)
(* Go string primitives.                                                   *)
(***************************************************************************)
\* s[i]
At(s, i) == s[i + 1]

\* s[lo:hi]
Slice(s, lo, hi) == SubSeq(s, lo + 1, hi)

\* all texts over alphabet A of length 0..n
RECURSIVE TextsOfLen(_, _)
TextsOfLen(A, n) ==
  IF n = 0 THEN {<<>>}
  ELSE {Append(t, c) : t \in TextsOfLen(A, n - 1), c \in A}

TextsUpTo(A, n) == UNION {TextsOfLen(A, k) : k \in 0..n}

\* strings.IndexRune(s, c) for an ASCII c: offset of the first c, -1 if none
IndexRune(s, c) ==
  IF \E i \in 0..(Len(s) - 1) : At(s, i) = c
  THEN CHOOSE i \in 0..(Len(s) - 1) :
         /\ At(s, i) = c
         /\ \A j \in 0..(i - 1) : At(s, j) # c
  ELSE -1

\* strings.Contains(s, c) for one byte c
Contains(x, c) == \E i \in 0..(Len(x) - 1) : At(x, i) = c

\* strings.HasPrefix(s, p)
HasPrefix(s, p) == Len(p) <= Len(s) /\ Slice(s, 0, Len(p)) = p

\* offset of the last byte c of the text, -1 if none
LastIndexByte(t, c) ==
  IF \E k \in 0..(Len(t) - 1) : At(t, k) = c
  THEN CHOOSE k \in 0..(Len(t) - 1) :
         At(t, k) = c /\ \A j \in (k + 1)..(Len(t) - 1) : At(t, j) # c
  ELSE -1

\* strings.TrimSuffix(s, ":")
TrimSuffixColon(s) ==
  IF Len(s) > 0 /\ At(s, Len(s) - 1) = Colon
  THEN Slice(s, 0, Len(s) - 1)
  ELSE s

(***************************************************************************)
(* internal/reference                                                      *)
(***************************************************************************)
\* the builder loop that writes the delimiter before every segment
RECURSIVE JoinLoopAlwaysDelim(_, _, _)
JoinLoopAlwaysDelim(b, delim, segments) ==
  IF segments = <<>> THEN b
  ELSE LET s == Head(segments)
           b1 == IF s # <<>> THEN Append(b, delim) \o s ELSE b
       IN JoinLoopAlwaysDelim(b1, delim, Tail(segments))

\* the builder loop of reference.Join: b holds the text written so far
RECURSIVE JoinLoop(_, _, _)
JoinLoop(b, delim, segments) ==
  IF segments = <<>> THEN b
  ELSE LET s == Head(segments)
           b1 == IF s # <<>>
                 THEN (IF Len(b) # 0 THEN Append(b, delim) ELSE b) \o s
                 ELSE b
       IN JoinLoop(b1, delim, Tail(segments))

RECURSIVE SumLen(_)
SumLen(segments) ==
  IF segments = <<>> THEN 0 ELSE Len(Head(segments)) + SumLen(Tail(segments))

\* reference.Join(ref, delim, segments...)
referenceJoin(ref, delim, segments) ==
  IF Len(segments) = 0 THEN ref
  ELSE LET n == (Len(segments) - 1) + SumLen(segments)
       IN IF n = Len(segments) - 1 THEN ref
          ELSE JoinLoop(ref, delim, segments)

\* the scan that stops at the last delimiter whatever the counter holds
RECURSIVE LastIndexDelimNoCount(_, _, _, _)
LastIndexDelimNoCount(ref, delim, i, n) ==
  IF i < 0 THEN -1
  ELSE IF At(ref, i) = delim /\ n > 0 THEN i
  ELSE LastIndexDelimNoCount(ref, delim, i - 1, n)

\* strings.LastIndexFunc with the closure of reference.Split: the text is
\* visited from its end, i is the offset under inspection and n the
\* closure's captured counter; the answer is the offset where the closure
\* first returns true, or -1.
RECURSIVE LastIndexDelim(_, _, _, _)
LastIndexDelim(ref, delim, i, n) ==
  IF i < 0 THEN -1
  ELSE IF At(ref, i) = delim /\ n > 0
       THEN (IF n - 1 = 0 THEN i ELSE LastIndexDelim(ref, delim, i - 1, n - 1))
       ELSE LastIndexDelim(ref, delim, i - 1, n)

\* reference.Split that returns the text for every n <= 0
referenceSplitKeepNegative(ref, delim, n) ==
  IF n <= 0 THEN ref
  ELSE LET x == LastIndexDelim(ref, delim, Len(ref) - 1, n)
       IN IF x = -1 THEN <<>> ELSE Slice(ref, 0, x)

\* reference.Split that counts the delimiters from the start of the text
referenceSplitFromStart(ref, delim, n) ==
  IF n = 0 THEN ref
  ELSE LET idx == {i \in 0..(Len(ref) - 1) : At(ref, i) = delim}
       IN IF n < 0 \/ Cardinality(idx) < n THEN <<>>
          ELSE Slice(ref, 0, CHOOSE i \in idx : Cardinality({j \in idx : j < i}) = n - 1)

\* reference.Split(ref, delim, n)
referenceSplit(ref, delim, n) ==
  IF n = 0 THEN ref
  ELSE LET x == LastIndexDelim(ref, delim, Len(ref) - 1, n)
       IN IF x = -1 THEN <<>> ELSE Slice(ref, 0, x)

(***************************************************************************)
(* IRI algebra                                                             *)
(***************************************************************************)
Empty == <<>>

\* curie.New that writes the separator also for an empty schema
NewAlwaysColon(schema, ref) ==
  TrimSuffixColon(schema) \o <<Colon>> \o ref

\* curie.New(schema, ref)
New(schema, ref) ==
  IF Len(schema) = 0 THEN ref
  ELSE TrimSuffixColon(schema) \o <<Colon>> \o ref

\* curie.Split that keeps the separator in the reference
SplitKeepColon(x) ==
  IF Len(x) = 0 THEN <<<<>>, <<>>>>
  ELSE LET n == IndexRune(x, Colon)
       IN IF n = -1 THEN <<<<>>, x>>
          ELSE IF n = Len(x) - 1 THEN <<Slice(x, 0, n), <<>>>>
          ELSE <<Slice(x, 0, n), Slice(x, n, Len(x))>>

\* curie.Split that separates at the last ':'
SplitLastColon(x) ==
  IF Len(x) = 0 THEN <<<<>>, <<>>>>
  ELSE LET n == LastIndexByte(x, Colon)
       IN IF n = -1 THEN <<<<>>, x>>
          ELSE IF n = Len(x) - 1 THEN <<Slice(x, 0, n), <<>>>>
          ELSE <<Slice(x, 0, n), Slice(x, n + 1, Len(x))>>

\* curie.Split(iri): the pair <<schema, reference>>
Split(x) ==
  IF Len(x) = 0 THEN <<<<>>, <<>>>>
  ELSE LET n == IndexRune(x, Colon)
       IN IF n = -1 THEN <<<<>>, x>>
          ELSE IF n = Len(x) - 1 THEN <<Slice(x, 0, n), <<>>>>
          ELSE <<Slice(x, 0, n), Slice(x, n + 1, Len(x))>>

Schema(x) == Split(x)[1]

Reference(x) == Split(x)[2]

\* curie.Join that writes the result without the schema
JoinDropSchema(x, segments) ==
  New(<<>>, referenceJoin(Split(x)[2], Slash, segments))

\* curie.Join that appends the first segment only
JoinFirstSegment(x, segments) ==
  New(Split(x)[1],
      referenceJoin(Split(x)[2], Slash,
                    IF segments = <<>> THEN <<>> ELSE <<segments[1]>>))

\* curie.Join(iri, segments...)
Join(x, segments) ==
  New(Split(x)[1], referenceJoin(Split(x)[2], Slash, segments))

\* curie.Cut that counts the delimiters from the start of the reference
CutFromStart(x, n) ==
  New(Split(x)[1], referenceSplitFromStart(Split(x)[2], Slash, n))

\* curie.Cut(iri, n)
Cut(x, n) ==
  New(Split(x)[1], referenceSplit(Split(x)[2], Slash, n))

(***************************************************************************)
(* path/filepath with the separator '/', as curie.Base and curie.Path call *)
(* it (a build for a Unix target; no volume names).                        *)
(***************************************************************************)
Dot == 46

\* the end of the element that starts at offset r: the offset of the next
\* '/' or the length of the text
RECURSIVE ElementEnd(_, _)
ElementEnd(path, r) ==
  IF r >= Len(path) \/ At(path, r) = Slash THEN r ELSE ElementEnd(path, r + 1)

\* the backing up of Clean over the last element of out: the new length
RECURSIVE BackUp(_, _, _)
BackUp(out, w, dotdot) ==
  IF w > dotdot /\ At(out, w) # Slash THEN BackUp(out, w - 1, dotdot) ELSE w

\* the loop of filepath.Clean: r is the offset read next, out the text
\* written, dotdot the offset in out past which ".." may not back up
RECURSIVE CleanLoop(_, _, _, _, _)
CleanLoop(path, r, out, dotdot, rooted) ==
  LET n == Len(path) IN
  IF r >= n THEN out
  ELSE IF At(path, r) = Slash THEN CleanLoop(path, r + 1, out, dotdot, rooted)
  ELSE IF At(path, r) = Dot /\ (r + 1 = n \/ At(path, r + 1) = Slash)
       THEN CleanLoop(path, r + 1, out, dotdot, rooted)
  ELSE IF /\ At(path, r) = Dot
          /\ r + 1 < n
          /\ At(path, r + 1) = Dot
          /\ (r + 2 = n \/ At(path, r + 2) = Slash)
       THEN IF Len(out) > dotdot
            THEN CleanLoop(path, r + 2,
                           Slice(out, 0, BackUp(out, Len(out) - 1, dotdot)),
                           dotdot, rooted)
            ELSE IF ~rooted
                 THEN LET o == (IF Len(out) > 0 THEN Append(out, Slash) ELSE out)
                                 \o <<Dot, Dot>>
                      IN CleanLoop(path, r + 2, o, Len(o), rooted)
                 ELSE CleanLoop(path, r + 2, out, dotdot, rooted)
  ELSE LET e == ElementEnd(path, r)
           o == IF (rooted /\ Len(out) # 1) \/ (~rooted /\ Len(out) # 0)
                THEN Append(out, Slash) ELSE out
       IN CleanLoop(path, e, o \o Slice(path, r, e), dotdot, rooted)

\* filepath.Clean(path)
Clean(path) ==
  IF path = <<>> THEN <<Dot>>
  ELSE LET rooted == At(path, 0) = Slash
           out == IF rooted
                  THEN CleanLoop(path, 1, <<Slash>>, 1, TRUE)
                  ELSE CleanLoop(path, 0, <<>>, 0, FALSE)
       IN IF out = <<>> THEN <<Dot>> ELSE out

\* filepath.Dir(path)
Dir(path) == Clean(Slice(path, 0, LastIndexByte(path, Slash) + 1))

\* the text without its trailing '/' bytes
RECURSIVE TrimSlashes(_)
TrimSlashes(path) ==
  IF Len(path) > 0 /\ At(path, Len(path) - 1) = Slash
  THEN TrimSlashes(Slice(path, 0, Len(path) - 1))
  ELSE path

\* filepath.Base(path)
filepathBase(path) ==
  IF path = <<>> THEN <<Dot>>
  ELSE LET t == TrimSlashes(path)
           i == LastIndexByte(t, Slash)
           b == IF i >= 0 THEN Slice(t, i + 1, Len(t)) ELSE t
       IN IF b = <<>> THEN <<Slash>> ELSE b

(***************************************************************************)
(* The elements of the reference.                                          *)
(***************************************************************************)
\* curie.Base(iri)
Base(x) ==
  IF Len(Reference(x)) = 0 THEN <<>> ELSE filepathBase(Reference(x))

\* curie.Path(iri)
Path(x) ==
  IF Len(Split(x)[2]) = 0 THEN x
  ELSE LET ref == Dir(Split(x)[2])
       IN New(Split(x)[1], IF ref = <<Dot>> THEN <<>> ELSE ref)

\* curie.Head(iri)
curieHead(x) ==
  LET ref == Reference(x) IN
  IF Len(ref) = 0 THEN <<>>
  ELSE IF IndexRune(ref, Slash) = -1 THEN ref
  ELSE Slice(ref, 0, IndexRune(ref, Slash))

\* curie.Tail that keeps the text up to the last '/'
curieTailFromLast(x) ==
  LET ref == Split(x)[2]
      n == LastIndexByte(ref, Slash)
  IN IF Len(ref) = 0 THEN x
     ELSE New(Split(x)[1], IF n = -1 THEN <<>> ELSE Slice(ref, n + 1, Len(ref)))

\* curie.Tail(iri)
curieTail(x) ==
  LET ref == Split(x)[2]
      n == IndexRune(ref, Slash)
  IN IF Len(ref) = 0 THEN x
     ELSE New(Split(x)[1], IF n = -1 THEN <<>> ELSE Slice(ref, n + 1, Len(ref)))

(***************************************************************************)
(* Inputs of the algebra specification.                                    *)
(***************************************************************************)
\* 'a', ':' and '/'
AlgAlphabet == {97, Colon, Slash}

AlgTexts == TextsUpTo(AlgAlphabet, MaxLen)

\* schemes handed to New
AlgParts == TextsUpTo(AlgAlphabet, 2)

\* references of several segments, with the elements ".", ".." and with ':':
\* a/a, a/a/a, a/aa/a, ., .., ./a, a/., a/./a, a/../a, ../a, a:a/a, a/a:
AlgLongRefs ==
  {<<97, Slash, 97>>, <<97, Slash, 97, Slash, 97>>, <<97, Slash, 97, 97, Slash, 97>>,
   <<Dot>>, <<Dot, Dot>>, <<Dot, Slash, 97>>, <<97, Slash, Dot>>,
   <<97, Slash, Dot, Slash, 97>>, <<97, Slash, Dot, Dot, Slash, 97>>,
   <<Dot, Dot, Slash, 97>>, <<97, Colon, 97, Slash, 97>>, <<97, Slash, 97, Colon>>}

\* references handed to New
AlgRefs == AlgParts \cup AlgLongRefs

\* one segment handed to Join: "", "a", "/", ":", "a/a"
AlgSegment == {<<>>, <<97>>, <<Slash>>, <<Colon>>, <<97, Slash, 97>>}

AlgSegments == UNION {[1..k -> AlgSegment] : k \in 0..MaxSegs}

NoCall == [op |-> "none", panic |-> FALSE]

InitAlgebra ==
  /\ iri \in AlgTexts
  /\ uri = <<>>
  /\ ns = <<>>
  /\ call = NoCall
  /\ release \in GoReleases

\* the pair <<schema, ref>> when the value at hand is the one the last call,
\* a New, built from that pair; <<>> otherwise
BuiltFrom == IF call.op = "New" THEN <<call.schema, call.ref>> ELSE <<>>

\* a behaviour of the algebra applies one operation to a drawn text or to
\* the value New built from a drawn pair
Fresh == call.op \in {"none", "New"}

\* x := curie.New(schema, ref); New reads nothing of the value it replaces,
\* so constructing from the initial states yields every state New can yield
DoNew ==
  \E schema \in AlgParts, ref \in AlgRefs :
    /\ call.op = "none"
    /\ iri' = New(schema, ref)
    /\ call' = [op |-> "New", panic |-> FALSE, schema |-> schema, ref |-> ref, out |-> New(schema, ref)]
    /\ UNCHANGED <<release, uri, ns>>

\* schema, ref := curie.Split(x)
DoSplit ==
  /\ Fresh
  /\ call' = [op |-> "Split", panic |-> FALSE, in |-> iri, schema |-> Split(iri)[1], ref |-> Split(iri)[2]]
  /\ UNCHANGED <<release, iri, uri, ns>>

\* x = curie.Join(x, segments...)
DoJoin ==
  \E segments \in AlgSegments :
    /\ Fresh
    /\ iri' = Join(iri, segments)
    /\ call' = [op |-> "Join", panic |-> FALSE, in |-> iri, segments |-> segments,
                out |-> Join(iri, segments), parts |-> BuiltFrom]
    /\ UNCHANGED <<release, uri, ns>>

\* x = curie.Cut(x, n)
DoCut ==
  \E n \in (0 - MaxNeg)..MaxSegs :
    /\ Fresh
    /\ iri' = Cut(iri, n)
    /\ call' = [op |-> "Cut", panic |-> FALSE, in |-> iri, n |-> n, out |-> Cut(iri, n),
                parts |-> BuiltFrom]
    /\ UNCHANGED <<release, uri, ns>>

\* s := curie.Base(x)
DoBase ==
  /\ Fresh
  /\ call' = [op |-> "Base", panic |-> FALSE, in |-> iri, out |-> Base(iri),
              parts |-> BuiltFrom]
  /\ UNCHANGED <<release, iri, uri, ns>>

\* x = curie.Path(x)
DoPath ==
  /\ Fresh
  /\ iri' = Path(iri)
  /\ call' = [op |-> "Path", panic |-> FALSE, in |-> iri, out |-> Path(iri),
              parts |-> BuiltFrom]
  /\ UNCHANGED <<release, uri, ns>>

\* s := curie.Head(x)
DoHead ==
  /\ Fresh
  /\ call' = [op |-> "Head", panic |-> FALSE, in |-> iri, out |-> curieHead(iri),
              parts |-> BuiltFrom]
  /\ UNCHANGED <<release, iri, uri, ns>>

\* x = curie.Tail(x)
DoTail ==
  /\ Fresh
  /\ iri' = curieTail(iri)
  /\ call' = [op |-> "Tail", panic |-> FALSE, in |-> iri, out |-> curieTail(iri),
              parts |-> BuiltFrom]
  /\ UNCHANGED <<release, uri, ns>>

NextAlgebra ==
  DoNew \/ DoSplit \/ DoJoin \/ DoCut \/ DoBase \/ DoPath \/ DoHead \/ DoTail

SpecAlgebra == InitAlgebra /\ [][NextAlgebra]_vars

(***************************************************************************)
(* unicode/utf8, unicode and net/url primitives used by the codec.         *)
(***************************************************************************)
\* utf8.RuneError
RuneError == 65533

\* utf8.RuneStart(b)
RuneStart(b) == ~(128 <= b /\ b <= 191)

\* a continuation byte 0x80..0xBF
IsCont(b) == 128 <= b /\ b <= 191

\* utf8.DecodeRune(p): the pair <<rune, size>>
DecodeRune(p) ==
  LET n == Len(p) IN
  IF n < 1 THEN <<RuneError, 0>>
  ELSE LET p0 == At(p, 0)
           \* size of the sequence the first byte announces, 0 if invalid
           sz == IF p0 < 128 THEN 1
                 ELSE IF 194 <= p0 /\ p0 <= 223 THEN 2
                 ELSE IF 224 <= p0 /\ p0 <= 239 THEN 3
                 ELSE IF 240 <= p0 /\ p0 <= 244 THEN 4
                 ELSE 0
           \* accepted range of the second byte
           lo == IF p0 = 224 THEN 160 ELSE IF p0 = 240 THEN 144 ELSE 128
           hi == IF p0 = 237 THEN 159 ELSE IF p0 = 244 THEN 143 ELSE 191
       IN IF sz = 1 THEN <<p0, 1>>
          ELSE IF sz = 0 THEN <<RuneError, 1>>
          ELSE IF n < sz THEN <<RuneError, 1>>
          ELSE IF At(p, 1) < lo \/ hi < At(p, 1) THEN <<RuneError, 1>>
          ELSE IF sz <= 2 THEN <<(p0 % 32) * 64 + (At(p, 1) % 64), 2>>
          ELSE IF ~IsCont(At(p, 2)) THEN <<RuneError, 1>>
          ELSE IF sz <= 3
               THEN <<(p0 % 16) * 4096 + (At(p, 1) % 64) * 64 + (At(p, 2) % 64), 3>>
          ELSE IF ~IsCont(At(p, 3)) THEN <<RuneError, 1>>
          ELSE <<(p0 % 8) * 262144 + (At(p, 1) % 64) * 4096
                   + (At(p, 2) % 64) * 64 + (At(p, 3) % 64), 4>>

\* the backward scan of utf8.DecodeLastRune for a rune start, from start
\* down to lim; the offset where it stops (lim - 1 if it finds none)
RECURSIVE LastRuneStart(_, _, _)
LastRuneStart(p, start, lim) ==
  IF start < lim THEN start
  ELSE IF RuneStart(At(p, start)) THEN start
  ELSE LastRuneStart(p, start - 1, lim)

\* utf8.DecodeLastRune(p): the pair <<rune, size>>
DecodeLastRune(p) ==
  LET end == Len(p) IN
  IF end = 0 THEN <<RuneError, 0>>
  ELSE IF At(p, end - 1) < 128 THEN <<At(p, end - 1), 1>>
  ELSE LET lim == IF end - 4 < 0 THEN 0 ELSE end - 4
           s0 == LastRuneStart(p, end - 2, lim)
           start == IF s0 < 0 THEN 0 ELSE s0
           d == DecodeRune(Slice(p, start, end))
       IN IF start + d[2] # end THEN <<RuneError, 1>> ELSE d

\* string(r): the UTF-8 encoding of a valid rune
EncodeRune(r) ==
  IF r < 128 THEN <<r>>
  ELSE IF r < 2048 THEN <<192 + (r \div 64), 128 + (r % 64)>>
  ELSE IF r < 65536
       THEN <<224 + (r \div 4096), 128 + ((r \div 64) % 64), 128 + (r % 64)>>
  ELSE <<240 + (r \div 262144), 128 + ((r \div 4096) % 64),
         128 + ((r \div 64) % 64), 128 + (r % 64)>>

\* unicode.GraphicRanges up to Go 1.20: the code points of the categories
\* L, M, N, P, S and Zs of Unicode 13.0.0 as the sorted list of their
\* maximal ranges <<lo, hi>> (the tables merged, with stride 1)
GraphicRanges13 ==
  <<
    <<32, 126>>, <<160, 172>>, <<174, 887>>,
    <<890, 895>>, <<900, 906>>, <<908, 908>>,
    <<910, 929>>, <<931, 1327>>, <<1329, 1366>>,
    <<1369, 1418>>, <<1421, 1423>>, <<1425, 1479>>,
    <<1488, 1514>>, <<1519, 1524>>, <<1542, 1563>>,
    <<1566, 1756>>, <<1758, 1805>>, <<1808, 1866>>,
    <<1869, 1969>>, <<1984, 2042>>, <<2045, 2093>>,
    <<2096, 2110>>, <<2112, 2139>>, <<2142, 2142>>,
    <<2144, 2154>>, <<2208, 2228>>, <<2230, 2247>>,
    <<2259, 2273>>, <<2275, 2435>>, <<2437, 2444>>,
    <<2447, 2448>>, <<2451, 2472>>, <<2474, 2480>>,
    <<2482, 2482>>, <<2486, 2489>>, <<2492, 2500>>,
    <<2503, 2504>>, <<2507, 2510>>, <<2519, 2519>>,
    <<2524, 2525>>, <<2527, 2531>>, <<2534, 2558>>,
    <<2561, 2563>>, <<2565, 2570>>, <<2575, 2576>>,
    <<2579, 2600>>, <<2602, 2608>>, <<2610, 2611>>,
    <<2613, 2614>>, <<2616, 2617>>, <<2620, 2620>>,
    <<2622, 2626>>, <<2631, 2632>>, <<2635, 2637>>,
    <<2641, 2641>>, <<2649, 2652>>, <<2654, 2654>>,
    <<2662, 2678>>, <<2689, 2691>>, <<2693, 2701>>,
    <<2703, 2705>>, <<2707, 2728>>, <<2730, 2736>>,
    <<2738, 2739>>, <<2741, 2745>>, <<2748, 2757>>,
    <<2759, 2761>>, <<2763, 2765>>, <<2768, 2768>>,
    <<2784, 2787>>, <<2790, 2801>>, <<2809, 2815>>,
    <<2817, 2819>>, <<2821, 2828>>, <<2831, 2832>>,
    <<2835, 2856>>, <<2858, 2864>>, <<2866, 2867>>,
    <<2869, 2873>>, <<2876, 2884>>, <<2887, 2888>>,
    <<2891, 2893>>, <<2901, 2903>>, <<2908, 2909>>,
    <<2911, 2915>>, <<2918, 2935>>, <<2946, 2947>>,
    <<2949, 2954>>, <<2958, 2960>>, <<2962, 2965>>,
    <<2969, 2970>>, <<2972, 2972>>, <<2974, 2975>>,
    <<2979, 2980>>, <<2984, 2986>>, <<2990, 3001>>,
    <<3006, 3010>>, <<3014, 3016>>, <<3018, 3021>>,
    <<3024, 3024>>, <<3031, 3031>>, <<3046, 3066>>,
    <<3072, 3084>>, <<3086, 3088>>, <<3090, 3112>>,
    <<3114, 3129>>, <<3133, 3140>>, <<3142, 3144>>,
    <<3146, 3149>>, <<3157, 3158>>, <<3160, 3162>>,
    <<3168, 3171>>, <<3174, 3183>>, <<3191, 3212>>,
    <<3214, 3216>>, <<3218, 3240>>, <<3242, 3251>>,
    <<3253, 3257>>, <<3260, 3268>>, <<3270, 3272>>,
    <<3274, 3277>>, <<3285, 3286>>, <<3294, 3294>>,
    <<3296, 3299>>, <<3302, 3311>>, <<3313, 3314>>,
    <<3328, 3340>>, <<3342, 3344>>, <<3346, 3396>>,
    <<3398, 3400>>, <<3402, 3407>>, <<3412, 3427>>,
    <<3430, 3455>>, <<3457, 3459>>, <<3461, 3478>>,
    <<3482, 3505>>, <<3507, 3515>>, <<3517, 3517>>,
    <<3520, 3526>>, <<3530, 3530>>, <<3535, 3540>>,
    <<3542, 3542>>, <<3544, 3551>>, <<3558, 3567>>,
    <<3570, 3572>>, <<3585, 3642>>, <<3647, 3675>>,
    <<3713, 3714>>, <<3716, 3716>>, <<3718, 3722>>,
    <<3724, 3747>>, <<3749, 3749>>, <<3751, 3773>>,
    <<3776, 3780>>, <<3782, 3782>>, <<3784, 3789>>,
    <<3792, 3801>>, <<3804, 3807>>, <<3840, 3911>>,
    <<3913, 3948>>, <<3953, 3991>>, <<3993, 4028>>,
    <<4030, 4044>>, <<4046, 4058>>, <<4096, 4293>>,
    <<4295, 4295>>, <<4301, 4301>>, <<4304, 4680>>,
    <<4682, 4685>>, <<4688, 4694>>, <<4696, 4696>>,
    <<4698, 4701>>, <<4704, 4744>>, <<4746, 4749>>,
    <<4752, 4784>>, <<4786, 4789>>, <<4792, 4798>>,
    <<4800, 4800>>, <<4802, 4805>>, <<4808, 4822>>,
    <<4824, 4880>>, <<4882, 4885>>, <<4888, 4954>>,
    <<4957, 4988>>, <<4992, 5017>>, <<5024, 5109>>,
    <<5112, 5117>>, <<5120, 5788>>, <<5792, 5880>>,
    <<5888, 5900>>, <<5902, 5908>>, <<5920, 5942>>,
    <<5952, 5971>>, <<5984, 5996>>, <<5998, 6000>>,
    <<6002, 6003>>, <<6016, 6109>>, <<6112, 6121>>,
    <<6128, 6137>>, <<6144, 6157>>, <<6160, 6169>>,
    <<6176, 6264>>, <<6272, 6314>>, <<6320, 6389>>,
    <<6400, 6430>>, <<6432, 6443>>, <<6448, 6459>>,
    <<6464, 6464>>, <<6468, 6509>>, <<6512, 6516>>,
    <<6528, 6571>>, <<6576, 6601>>, <<6608, 6618>>,
    <<6622, 6683>>, <<6686, 6750>>, <<6752, 6780>>,
    <<6783, 6793>>, <<6800, 6809>>, <<6816, 6829>>,
    <<6832, 6848>>, <<6912, 6987>>, <<6992, 7036>>,
    <<7040, 7155>>, <<7164, 7223>>, <<7227, 7241>>,
    <<7245, 7304>>, <<7312, 7354>>, <<7357, 7367>>,
    <<7376, 7418>>, <<7424, 7673>>, <<7675, 7957>>,
    <<7960, 7965>>, <<7968, 8005>>, <<8008, 8013>>,
    <<8016, 8023>>, <<8025, 8025>>, <<8027, 8027>>,
    <<8029, 8029>>, <<8031, 8061>>, <<8064, 8116>>,
    <<8118, 8132>>, <<8134, 8147>>, <<8150, 8155>>,
    <<8157, 8175>>, <<8178, 8180>>, <<8182, 8190>>,
    <<8192, 8202>>, <<8208, 8231>>, <<8239, 8287>>,
    <<8304, 8305>>, <<8308, 8334>>, <<8336, 8348>>,
    <<8352, 8383>>, <<8400, 8432>>, <<8448, 8587>>,
    <<8592, 9254>>, <<9280, 9290>>, <<9312, 11123>>,
    <<11126, 11157>>, <<11159, 11310>>, <<11312, 11358>>,
    <<11360, 11507>>, <<11513, 11557>>, <<11559, 11559>>,
    <<11565, 11565>>, <<11568, 11623>>, <<11631, 11632>>,
    <<11647, 11670>>, <<11680, 11686>>, <<11688, 11694>>,
    <<11696, 11702>>, <<11704, 11710>>, <<11712, 11718>>,
    <<11720, 11726>>, <<11728, 11734>>, <<11736, 11742>>,
    <<11744, 11858>>, <<11904, 11929>>, <<11931, 12019>>,
    <<12032, 12245>>, <<12272, 12283>>, <<12288, 12351>>,
    <<12353, 12438>>, <<12441, 12543>>, <<12549, 12591>>,
    <<12593, 12686>>, <<12688, 12771>>, <<12784, 12830>>,
    <<12832, 40956>>, <<40960, 42124>>, <<42128, 42182>>,
    <<42192, 42539>>, <<42560, 42743>>, <<42752, 42943>>,
    <<42946, 42954>>, <<42997, 43052>>, <<43056, 43065>>,
    <<43072, 43127>>, <<43136, 43205>>, <<43214, 43225>>,
    <<43232, 43347>>, <<43359, 43388>>, <<43392, 43469>>,
    <<43471, 43481>>, <<43486, 43518>>, <<43520, 43574>>,
    <<43584, 43597>>, <<43600, 43609>>, <<43612, 43714>>,
    <<43739, 43766>>, <<43777, 43782>>, <<43785, 43790>>,
    <<43793, 43798>>, <<43808, 43814>>, <<43816, 43822>>,
    <<43824, 43883>>, <<43888, 44013>>, <<44016, 44025>>,
    <<44032, 55203>>, <<55216, 55238>>, <<55243, 55291>>,
    <<63744, 64109>>, <<64112, 64217>>, <<64256, 64262>>,
    <<64275, 64279>>, <<64285, 64310>>, <<64312, 64316>>,
    <<64318, 64318>>, <<64320, 64321>>, <<64323, 64324>>,
    <<64326, 64449>>, <<64467, 64831>>, <<64848, 64911>>,
    <<64914, 64967>>, <<65008, 65021>>, <<65024, 65049>>,
    <<65056, 65106>>, <<65108, 65126>>, <<65128, 65131>>,
    <<65136, 65140>>, <<65142, 65276>>, <<65281, 65470>>,
    <<65474, 65479>>, <<65482, 65487>>, <<65490, 65495>>,
    <<65498, 65500>>, <<65504, 65510>>, <<65512, 65518>>,
    <<65532, 65533>>, <<65536, 65547>>, <<65549, 65574>>,
    <<65576, 65594>>, <<65596, 65597>>, <<65599, 65613>>,
    <<65616, 65629>>, <<65664, 65786>>, <<65792, 65794>>,
    <<65799, 65843>>, <<65847, 65934>>, <<65936, 65948>>,
    <<65952, 65952>>, <<66000, 66045>>, <<66176, 66204>>,
    <<66208, 66256>>, <<66272, 66299>>, <<66304, 66339>>,
    <<66349, 66378>>, <<66384, 66426>>, <<66432, 66461>>,
    <<66463, 66499>>, <<66504, 66517>>, <<66560, 66717>>,
    <<66720, 66729>>, <<66736, 66771>>, <<66776, 66811>>,
    <<66816, 66855>>, <<66864, 66915>>, <<66927, 66927>>,
    <<67072, 67382>>, <<67392, 67413>>, <<67424, 67431>>,
    <<67584, 67589>>, <<67592, 67592>>, <<67594, 67637>>,
    <<67639, 67640>>, <<67644, 67644>>, <<67647, 67669>>,
    <<67671, 67742>>, <<67751, 67759>>, <<67808, 67826>>,
    <<67828, 67829>>, <<67835, 67867>>, <<67871, 67897>>,
    <<67903, 67903>>, <<67968, 68023>>, <<68028, 68047>>,
    <<68050, 68099>>, <<68101, 68102>>, <<68108, 68115>>,
    <<68117, 68119>>, <<68121, 68149>>, <<68152, 68154>>,
    <<68159, 68168>>, <<68176, 68184>>, <<68192, 68255>>,
    <<68288, 68326>>, <<68331, 68342>>, <<68352, 68405>>,
    <<68409, 68437>>, <<68440, 68466>>, <<68472, 68497>>,
    <<68505, 68508>>, <<68521, 68527>>, <<68608, 68680>>,
    <<68736, 68786>>, <<68800, 68850>>, <<68858, 68903>>,
    <<68912, 68921>>, <<69216, 69246>>, <<69248, 69289>>,
    <<69291, 69293>>, <<69296, 69297>>, <<69376, 69415>>,
    <<69424, 69465>>, <<69552, 69579>>, <<69600, 69622>>,
    <<69632, 69709>>, <<69714, 69743>>, <<69759, 69820>>,
    <<69822, 69825>>, <<69840, 69864>>, <<69872, 69881>>,
    <<69888, 69940>>, <<69942, 69959>>, <<69968, 70006>>,
    <<70016, 70111>>, <<70113, 70132>>, <<70144, 70161>>,
    <<70163, 70206>>, <<70272, 70278>>, <<70280, 70280>>,
    <<70282, 70285>>, <<70287, 70301>>, <<70303, 70313>>,
    <<70320, 70378>>, <<70384, 70393>>, <<70400, 70403>>,
    <<70405, 70412>>, <<70415, 70416>>, <<70419, 70440>>,
    <<70442, 70448>>, <<70450, 70451>>, <<70453, 70457>>,
    <<70459, 70468>>, <<70471, 70472>>, <<70475, 70477>>,
    <<70480, 70480>>, <<70487, 70487>>, <<70493, 70499>>,
    <<70502, 70508>>, <<70512, 70516>>, <<70656, 70747>>,
    <<70749, 70753>>, <<70784, 70855>>, <<70864, 70873>>,
    <<71040, 71093>>, <<71096, 71133>>, <<71168, 71236>>,
    <<71248, 71257>>, <<71264, 71276>>, <<71296, 71352>>,
    <<71360, 71369>>, <<71424, 71450>>, <<71453, 71467>>,
    <<71472, 71487>>, <<71680, 71739>>, <<71840, 71922>>,
    <<71935, 71942>>, <<71945, 71945>>, <<71948, 71955>>,
    <<71957, 71958>>, <<71960, 71989>>, <<71991, 71992>>,
    <<71995, 72006>>, <<72016, 72025>>, <<72096, 72103>>,
    <<72106, 72151>>, <<72154, 72164>>, <<72192, 72263>>,
    <<72272, 72354>>, <<72384, 72440>>, <<72704, 72712>>,
    <<72714, 72758>>, <<72760, 72773>>, <<72784, 72812>>,
    <<72816, 72847>>, <<72850, 72871>>, <<72873, 72886>>,
    <<72960, 72966>>, <<72968, 72969>>, <<72971, 73014>>,
    <<73018, 73018>>, <<73020, 73021>>, <<73023, 73031>>,
    <<73040, 73049>>, <<73056, 73061>>, <<73063, 73064>>,
    <<73066, 73102>>, <<73104, 73105>>, <<73107, 73112>>,
    <<73120, 73129>>, <<73440, 73464>>, <<73648, 73648>>,
    <<73664, 73713>>, <<73727, 74649>>, <<74752, 74862>>,
    <<74864, 74868>>, <<74880, 75075>>, <<77824, 78894>>,
    <<82944, 83526>>, <<92160, 92728>>, <<92736, 92766>>,
    <<92768, 92777>>, <<92782, 92783>>, <<92880, 92909>>,
    <<92912, 92917>>, <<92928, 92997>>, <<93008, 93017>>,
    <<93019, 93025>>, <<93027, 93047>>, <<93053, 93071>>,
    <<93760, 93850>>, <<93952, 94026>>, <<94031, 94087>>,
    <<94095, 94111>>, <<94176, 94180>>, <<94192, 94193>>,
    <<94208, 100343>>, <<100352, 101589>>, <<101632, 101640>>,
    <<110592, 110878>>, <<110928, 110930>>, <<110948, 110951>>,
    <<110960, 111355>>, <<113664, 113770>>, <<113776, 113788>>,
    <<113792, 113800>>, <<113808, 113817>>, <<113820, 113823>>,
    <<118784, 119029>>, <<119040, 119078>>, <<119081, 119154>>,
    <<119163, 119272>>, <<119296, 119365>>, <<119520, 119539>>,
    <<119552, 119638>>, <<119648, 119672>>, <<119808, 119892>>,
    <<119894, 119964>>, <<119966, 119967>>, <<119970, 119970>>,
    <<119973, 119974>>, <<119977, 119980>>, <<119982, 119993>>,
    <<119995, 119995>>, <<119997, 120003>>, <<120005, 120069>>,
    <<120071, 120074>>, <<120077, 120084>>, <<120086, 120092>>,
    <<120094, 120121>>, <<120123, 120126>>, <<120128, 120132>>,
    <<120134, 120134>>, <<120138, 120144>>, <<120146, 120485>>,
    <<120488, 120779>>, <<120782, 121483>>, <<121499, 121503>>,
    <<121505, 121519>>, <<122880, 122886>>, <<122888, 122904>>,
    <<122907, 122913>>, <<122915, 122916>>, <<122918, 122922>>,
    <<123136, 123180>>, <<123184, 123197>>, <<123200, 123209>>,
    <<123214, 123215>>, <<123584, 123641>>, <<123647, 123647>>,
    <<124928, 125124>>, <<125127, 125142>>, <<125184, 125259>>,
    <<125264, 125273>>, <<125278, 125279>>, <<126065, 126132>>,
    <<126209, 126269>>, <<126464, 126467>>, <<126469, 126495>>,
    <<126497, 126498>>, <<126500, 126500>>, <<126503, 126503>>,
    <<126505, 126514>>, <<126516, 126519>>, <<126521, 126521>>,
    <<126523, 126523>>, <<126530, 126530>>, <<126535, 126535>>,
    <<126537, 126537>>, <<126539, 126539>>, <<126541, 126543>>,
    <<126545, 126546>>, <<126548, 126548>>, <<126551, 126551>>,
    <<126553, 126553>>, <<126555, 126555>>, <<126557, 126557>>,
    <<126559, 126559>>, <<126561, 126562>>, <<126564, 126564>>,
    <<126567, 126570>>, <<126572, 126578>>, <<126580, 126583>>,
    <<126585, 126588>>, <<126590, 126590>>, <<126592, 126601>>,
    <<126603, 126619>>, <<126625, 126627>>, <<126629, 126633>>,
    <<126635, 126651>>, <<126704, 126705>>, <<126976, 127019>>,
    <<127024, 127123>>, <<127136, 127150>>, <<127153, 127167>>,
    <<127169, 127183>>, <<127185, 127221>>, <<127232, 127405>>,
    <<127462, 127490>>, <<127504, 127547>>, <<127552, 127560>>,
    <<127568, 127569>>, <<127584, 127589>>, <<127744, 128727>>,
    <<128736, 128748>>, <<128752, 128764>>, <<128768, 128883>>,
    <<128896, 128984>>, <<128992, 129003>>, <<129024, 129035>>,
    <<129040, 129095>>, <<129104, 129113>>, <<129120, 129159>>,
    <<129168, 129197>>, <<129200, 129201>>, <<129280, 129400>>,
    <<129402, 129483>>, <<129485, 129619>>, <<129632, 129645>>,
    <<129648, 129652>>, <<129656, 129658>>, <<129664, 129670>>,
    <<129680, 129704>>, <<129712, 129718>>, <<129728, 129730>>,
    <<129744, 129750>>, <<129792, 129938>>, <<129940, 129994>>,
    <<130032, 130041>>, <<131072, 173789>>, <<173824, 177972>>,
    <<177984, 178205>>, <<178208, 183969>>, <<183984, 191456>>,
    <<194560, 195101>>, <<196608, 201546>>, <<917760, 917999>>
  >>

\* unicode.GraphicRanges from Go 1.21 on: the same categories of Unicode
\* 15.0.0
GraphicRanges15 ==
  <<
    <<32, 126>>, <<160, 172>>, <<174, 887>>,
    <<890, 895>>, <<900, 906>>, <<908, 908>>,
    <<910, 929>>, <<931, 1327>>, <<1329, 1366>>,
    <<1369, 1418>>, <<1421, 1423>>, <<1425, 1479>>,
    <<1488, 1514>>, <<1519, 1524>>, <<1542, 1563>>,
    <<1565, 1756>>, <<1758, 1805>>, <<1808, 1866>>,
    <<1869, 1969>>, <<1984, 2042>>, <<2045, 2093>>,
    <<2096, 2110>>, <<2112, 2139>>, <<2142, 2142>>,
    <<2144, 2154>>, <<2160, 2190>>, <<2200, 2273>>,
    <<2275, 2435>>, <<2437, 2444>>, <<2447, 2448>>,
    <<2451, 2472>>, <<2474, 2480>>, <<2482, 2482>>,
    <<2486, 2489>>, <<2492, 2500>>, <<2503, 2504>>,
    <<2507, 2510>>, <<2519, 2519>>, <<2524, 2525>>,
    <<2527, 2531>>, <<2534, 2558>>, <<2561, 2563>>,
    <<2565, 2570>>, <<2575, 2576>>, <<2579, 2600>>,
    <<2602, 2608>>, <<2610, 2611>>, <<2613, 2614>>,
    <<2616, 2617>>, <<2620, 2620>>, <<2622, 2626>>,
    <<2631, 2632>>, <<2635, 2637>>, <<2641, 2641>>,
    <<2649, 2652>>, <<2654, 2654>>, <<2662, 2678>>,
    <<2689, 2691>>, <<2693, 2701>>, <<2703, 2705>>,
    <<2707, 2728>>, <<2730, 2736>>, <<2738, 2739>>,
    <<2741, 2745>>, <<2748, 2757>>, <<2759, 2761>>,
    <<2763, 2765>>, <<2768, 2768>>, <<2784, 2787>>,
    <<2790, 2801>>, <<2809, 2815>>, <<2817, 2819>>,
    <<2821, 2828>>, <<2831, 2832>>, <<2835, 2856>>,
    <<2858, 2864>>, <<2866, 2867>>, <<2869, 2873>>,
    <<2876, 2884>>, <<2887, 2888>>, <<2891, 2893>>,
    <<2901, 2903>>, <<2908, 2909>>, <<2911, 2915>>,
    <<2918, 2935>>, <<2946, 2947>>, <<2949, 2954>>,
    <<2958, 2960>>, <<2962, 2965>>, <<2969, 2970>>,
    <<2972, 2972>>, <<2974, 2975>>, <<2979, 2980>>,
    <<2984, 2986>>, <<2990, 3001>>, <<3006, 3010>>,
    <<3014, 3016>>, <<3018, 3021>>, <<3024, 3024>>,
    <<3031, 3031>>, <<3046, 3066>>, <<3072, 3084>>,
    <<3086, 3088>>, <<3090, 3112>>, <<3114, 3129>>,
    <<3132, 3140>>, <<3142, 3144>>, <<3146, 3149>>,
    <<3157, 3158>>, <<3160, 3162>>, <<3165, 3165>>,
    <<3168, 3171>>, <<3174, 3183>>, <<3191, 3212>>,
    <<3214, 3216>>, <<3218, 3240>>, <<3242, 3251>>,
    <<3253, 3257>>, <<3260, 3268>>, <<3270, 3272>>,
    <<3274, 3277>>, <<3285, 3286>>, <<3293, 3294>>,
    <<3296, 3299>>, <<3302, 3311>>, <<3313, 3315>>,
    <<3328, 3340>>, <<3342, 3344>>, <<3346, 3396>>,
    <<3398, 3400>>, <<3402, 3407>>, <<3412, 3427>>,
    <<3430, 3455>>, <<3457, 3459>>, <<3461, 3478>>,
    <<3482, 3505>>, <<3507, 3515>>, <<3517, 3517>>,
    <<3520, 3526>>, <<3530, 3530>>, <<3535, 3540>>,
    <<3542, 3542>>, <<3544, 3551>>, <<3558, 3567>>,
    <<3570, 3572>>, <<3585, 3642>>, <<3647, 3675>>,
    <<3713, 3714>>, <<3716, 3716>>, <<3718, 3722>>,
    <<3724, 3747>>, <<3749, 3749>>, <<3751, 3773>>,
    <<3776, 3780>>, <<3782, 3782>>, <<3784, 3790>>,
    <<3792, 3801>>, <<3804, 3807>>, <<3840, 3911>>,
    <<3913, 3948>>, <<3953, 3991>>, <<3993, 4028>>,
    <<4030, 4044>>, <<4046, 4058>>, <<4096, 4293>>,
    <<4295, 4295>>, <<4301, 4301>>, <<4304, 4680>>,
    <<4682, 4685>>, <<4688, 4694>>, <<4696, 4696>>,
    <<4698, 4701>>, <<4704, 4744>>, <<4746, 4749>>,
    <<4752, 4784>>, <<4786, 4789>>, <<4792, 4798>>,
    <<4800, 4800>>, <<4802, 4805>>, <<4808, 4822>>,
    <<4824, 4880>>, <<4882, 4885>>, <<4888, 4954>>,
    <<4957, 4988>>, <<4992, 5017>>, <<5024, 5109>>,
    <<5112, 5117>>, <<5120, 5788>>, <<5792, 5880>>,
    <<5888, 5909>>, <<5919, 5942>>, <<5952, 5971>>,
    <<5984, 5996>>, <<5998, 6000>>, <<6002, 6003>>,
    <<6016, 6109>>, <<6112, 6121>>, <<6128, 6137>>,
    <<6144, 6157>>, <<6159, 6169>>, <<6176, 6264>>,
    <<6272, 6314>>, <<6320, 6389>>, <<6400, 6430>>,
    <<6432, 6443>>, <<6448, 6459>>, <<6464, 6464>>,
    <<6468, 6509>>, <<6512, 6516>>, <<6528, 6571>>,
    <<6576, 6601>>, <<6608, 6618>>, <<6622, 6683>>,
    <<6686, 6750>>, <<6752, 6780>>, <<6783, 6793>>,
    <<6800, 6809>>, <<6816, 6829>>, <<6832, 6862>>,
    <<6912, 6988>>, <<6992, 7038>>, <<7040, 7155>>,
    <<7164, 7223>>, <<7227, 7241>>, <<7245, 7304>>,
    <<7312, 7354>>, <<7357, 7367>>, <<7376, 7418>>,
    <<7424, 7957>>, <<7960, 7965>>, <<7968, 8005>>,
    <<8008, 8013>>, <<8016, 8023>>, <<8025, 8025>>,
    <<8027, 8027>>, <<8029, 8029>>, <<8031, 8061>>,
    <<8064, 8116>>, <<8118, 8132>>, <<8134, 8147>>,
    <<8150, 8155>>, <<8157, 8175>>, <<8178, 8180>>,
    <<8182, 8190>>, <<8192, 8202>>, <<8208, 8231>>,
    <<8239, 8287>>, <<8304, 8305>>, <<8308, 8334>>,
    <<8336, 8348>>, <<8352, 8384>>, <<8400, 8432>>,
    <<8448, 8587>>, <<8592, 9254>>, <<9280, 9290>>,
    <<9312, 11123>>, <<11126, 11157>>, <<11159, 11507>>,
    <<11513, 11557>>, <<11559, 11559>>, <<11565, 11565>>,
    <<11568, 11623>>, <<11631, 11632>>, <<11647, 11670>>,
    <<11680, 11686>>, <<11688, 11694>>, <<11696, 11702>>,
    <<11704, 11710>>, <<11712, 11718>>, <<11720, 11726>>,
    <<11728, 11734>>, <<11736, 11742>>, <<11744, 11869>>,
    <<11904, 11929>>, <<11931, 12019>>, <<12032, 12245>>,
    <<12272, 12283>>, <<12288, 12351>>, <<12353, 12438>>,
    <<12441, 12543>>, <<12549, 12591>>, <<12593, 12686>>,
    <<12688, 12771>>, <<12784, 12830>>, <<12832, 42124>>,
    <<42128, 42182>>, <<42192, 42539>>, <<42560, 42743>>,
    <<42752, 42954>>, <<42960, 42961>>, <<42963, 42963>>,
    <<42965, 42969>>, <<42994, 43052>>, <<43056, 43065>>,
    <<43072, 43127>>, <<43136, 43205>>, <<43214, 43225>>,
    <<43232, 43347>>, <<43359, 43388>>, <<43392, 43469>>,
    <<43471, 43481>>, <<43486, 43518>>, <<43520, 43574>>,
    <<43584, 43597>>, <<43600, 43609>>, <<43612, 43714>>,
    <<43739, 43766>>, <<43777, 43782>>, <<43785, 43790>>,
    <<43793, 43798>>, <<43808, 43814>>, <<43816, 43822>>,
    <<43824, 43883>>, <<43888, 44013>>, <<44016, 44025>>,
    <<44032, 55203>>, <<55216, 55238>>, <<55243, 55291>>,
    <<63744, 64109>>, <<64112, 64217>>, <<64256, 64262>>,
    <<64275, 64279>>, <<64285, 64310>>, <<64312, 64316>>,
    <<64318, 64318>>, <<64320, 64321>>, <<64323, 64324>>,
    <<64326, 64450>>, <<64467, 64911>>, <<64914, 64967>>,
    <<64975, 64975>>, <<65008, 65049>>, <<65056, 65106>>,
    <<65108, 65126>>, <<65128, 65131>>, <<65136, 65140>>,
    <<65142, 65276>>, <<65281, 65470>>, <<65474, 65479>>,
    <<65482, 65487>>, <<65490, 65495>>, <<65498, 65500>>,
    <<65504, 65510>>, <<65512, 65518>>, <<65532, 65533>>,
    <<65536, 65547>>, <<65549, 65574>>, <<65576, 65594>>,
    <<65596, 65597>>, <<65599, 65613>>, <<65616, 65629>>,
    <<65664, 65786>>, <<65792, 65794>>, <<65799, 65843>>,
    <<65847, 65934>>, <<65936, 65948>>, <<65952, 65952>>,
    <<66000, 66045>>, <<66176, 66204>>, <<66208, 66256>>,
    <<66272, 66299>>, <<66304, 66339>>, <<66349, 66378>>,
    <<66384, 66426>>, <<66432, 66461>>, <<66463, 66499>>,
    <<66504, 66517>>, <<66560, 66717>>, <<66720, 66729>>,
    <<66736, 66771>>, <<66776, 66811>>, <<66816, 66855>>,
    <<66864, 66915>>, <<66927, 66938>>, <<66940, 66954>>,
    <<66956, 66962>>, <<66964, 66965>>, <<66967, 66977>>,
    <<66979, 66993>>, <<66995, 67001>>, <<67003, 67004>>,
    <<67072, 67382>>, <<67392, 67413>>, <<67424, 67431>>,
    <<67456, 67461>>, <<67463, 67504>>, <<67506, 67514>>,
    <<67584, 67589>>, <<67592, 67592>>, <<67594, 67637>>,
    <<67639, 67640>>, <<67644, 67644>>, <<67647, 67669>>,
    <<67671, 67742>>, <<67751, 67759>>, <<67808, 67826>>,
    <<67828, 67829>>, <<67835, 67867>>, <<67871, 67897>>,
    <<67903, 67903>>, <<67968, 68023>>, <<68028, 68047>>,
    <<68050, 68099>>, <<68101, 68102>>, <<68108, 68115>>,
    <<68117, 68119>>, <<68121, 68149>>, <<68152, 68154>>,
    <<68159, 68168>>, <<68176, 68184>>, <<68192, 68255>>,
    <<68288, 68326>>, <<68331, 68342>>, <<68352, 68405>>,
    <<68409, 68437>>, <<68440, 68466>>, <<68472, 68497>>,
    <<68505, 68508>>, <<68521, 68527>>, <<68608, 68680>>,
    <<68736, 68786>>, <<68800, 68850>>, <<68858, 68903>>,
    <<68912, 68921>>, <<69216, 69246>>, <<69248, 69289>>,
    <<69291, 69293>>, <<69296, 69297>>, <<69373, 69415>>,
    <<69424, 69465>>, <<69488, 69513>>, <<69552, 69579>>,
    <<69600, 69622>>, <<69632, 69709>>, <<69714, 69749>>,
    <<69759, 69820>>, <<69822, 69826>>, <<69840, 69864>>,
    <<69872, 69881>>, <<69888, 69940>>, <<69942, 69959>>,
    <<69968, 70006>>, <<70016, 70111>>, <<70113, 70132>>,
    <<70144, 70161>>, <<70163, 70209>>, <<70272, 70278>>,
    <<70280, 70280>>, <<70282, 70285>>, <<70287, 70301>>,
    <<70303, 70313>>, <<70320, 70378>>, <<70384, 70393>>,
    <<70400, 70403>>, <<70405, 70412>>, <<70415, 70416>>,
    <<70419, 70440>>, <<70442, 70448>>, <<70450, 70451>>,
    <<70453, 70457>>, <<70459, 70468>>, <<70471, 70472>>,
    <<70475, 70477>>, <<70480, 70480>>, <<70487, 70487>>,
    <<70493, 70499>>, <<70502, 70508>>, <<70512, 70516>>,
    <<70656, 70747>>, <<70749, 70753>>, <<70784, 70855>>,
    <<70864, 70873>>, <<71040, 71093>>, <<71096, 71133>>,
    <<71168, 71236>>, <<71248, 71257>>, <<71264, 71276>>,
    <<71296, 71353>>, <<71360, 71369>>, <<71424, 71450>>,
    <<71453, 71467>>, <<71472, 71494>>, <<71680, 71739>>,
    <<71840, 71922>>, <<71935, 71942>>, <<71945, 71945>>,
    <<71948, 71955>>, <<71957, 71958>>, <<71960, 71989>>,
    <<71991, 71992>>, <<71995, 72006>>, <<72016, 72025>>,
    <<72096, 72103>>, <<72106, 72151>>, <<72154, 72164>>,
    <<72192, 72263>>, <<72272, 72354>>, <<72368, 72440>>,
    <<72448, 72457>>, <<72704, 72712>>, <<72714, 72758>>,
    <<72760, 72773>>, <<72784, 72812>>, <<72816, 72847>>,
    <<72850, 72871>>, <<72873, 72886>>, <<72960, 72966>>,
    <<72968, 72969>>, <<72971, 73014>>, <<73018, 73018>>,
    <<73020, 73021>>, <<73023, 73031>>, <<73040, 73049>>,
    <<73056, 73061>>, <<73063, 73064>>, <<73066, 73102>>,
    <<73104, 73105>>, <<73107, 73112>>, <<73120, 73129>>,
    <<73440, 73464>>, <<73472, 73488>>, <<73490, 73530>>,
    <<73534, 73561>>, <<73648, 73648>>, <<73664, 73713>>,
    <<73727, 74649>>, <<74752, 74862>>, <<74864, 74868>>,
    <<74880, 75075>>, <<77712, 77810>>, <<77824, 78895>>,
    <<78912, 78933>>, <<82944, 83526>>, <<92160, 92728>>,
    <<92736, 92766>>, <<92768, 92777>>, <<92782, 92862>>,
    <<92864, 92873>>, <<92880, 92909>>, <<92912, 92917>>,
    <<92928, 92997>>, <<93008, 93017>>, <<93019, 93025>>,
    <<93027, 93047>>, <<93053, 93071>>, <<93760, 93850>>,
    <<93952, 94026>>, <<94031, 94087>>, <<94095, 94111>>,
    <<94176, 94180>>, <<94192, 94193>>, <<94208, 100343>>,
    <<100352, 101589>>, <<101632, 101640>>, <<110576, 110579>>,
    <<110581, 110587>>, <<110589, 110590>>, <<110592, 110882>>,
    <<110898, 110898>>, <<110928, 110930>>, <<110933, 110933>>,
    <<110948, 110951>>, <<110960, 111355>>, <<113664, 113770>>,
    <<113776, 113788>>, <<113792, 113800>>, <<113808, 113817>>,
    <<113820, 113823>>, <<118528, 118573>>, <<118576, 118598>>,
    <<118608, 118723>>, <<118784, 119029>>, <<119040, 119078>>,
    <<119081, 119154>>, <<119163, 119274>>, <<119296, 119365>>,
    <<119488, 119507>>, <<119520, 119539>>, <<119552, 119638>>,
    <<119648, 119672>>, <<119808, 119892>>, <<119894, 119964>>,
    <<119966, 119967>>, <<119970, 119970>>, <<119973, 119974>>,
    <<119977, 119980>>, <<119982, 119993>>, <<119995, 119995>>,
    <<119997, 120003>>, <<120005, 120069>>, <<120071, 120074>>,
    <<120077, 120084>>, <<120086, 120092>>, <<120094, 120121>>,
    <<120123, 120126>>, <<120128, 120132>>, <<120134, 120134>>,
    <<120138, 120144>>, <<120146, 120485>>, <<120488, 120779>>,
    <<120782, 121483>>, <<121499, 121503>>, <<121505, 121519>>,
    <<122624, 122654>>, <<122661, 122666>>, <<122880, 122886>>,
    <<122888, 122904>>, <<122907, 122913>>, <<122915, 122916>>,
    <<122918, 122922>>, <<122928, 122989>>, <<123023, 123023>>,
    <<123136, 123180>>, <<123184, 123197>>, <<123200, 123209>>,
    <<123214, 123215>>, <<123536, 123566>>, <<123584, 123641>>,
    <<123647, 123647>>, <<124112, 124153>>, <<124896, 124902>>,
    <<124904, 124907>>, <<124909, 124910>>, <<124912, 124926>>,
    <<124928, 125124>>, <<125127, 125142>>, <<125184, 125259>>,
    <<125264, 125273>>, <<125278, 125279>>, <<126065, 126132>>,
    <<126209, 126269>>, <<126464, 126467>>, <<126469, 126495>>,
    <<126497, 126498>>, <<126500, 126500>>, <<126503, 126503>>,
    <<126505, 126514>>, <<126516, 126519>>, <<126521, 126521>>,
    <<126523, 126523>>, <<126530, 126530>>, <<126535, 126535>>,
    <<126537, 126537>>, <<126539, 126539>>, <<126541, 126543>>,
    <<126545, 126546>>, <<126548, 126548>>, <<126551, 126551>>,
    <<126553, 126553>>, <<126555, 126555>>, <<126557, 126557>>,
    <<126559, 126559>>, <<126561, 126562>>, <<126564, 126564>>,
    <<126567, 126570>>, <<126572, 126578>>, <<126580, 126583>>,
    <<126585, 126588>>, <<126590, 126590>>, <<126592, 126601>>,
    <<126603, 126619>>, <<126625, 126627>>, <<126629, 126633>>,
    <<126635, 126651>>, <<126704, 126705>>, <<126976, 127019>>,
    <<127024, 127123>>, <<127136, 127150>>, <<127153, 127167>>,
    <<127169, 127183>>, <<127185, 127221>>, <<127232, 127405>>,
    <<127462, 127490>>, <<127504, 127547>>, <<127552, 127560>>,
    <<127568, 127569>>, <<127584, 127589>>, <<127744, 128727>>,
    <<128732, 128748>>, <<128752, 128764>>, <<128768, 128886>>,
    <<128891, 128985>>, <<128992, 129003>>, <<129008, 129008>>,
    <<129024, 129035>>, <<129040, 129095>>, <<129104, 129113>>,
    <<129120, 129159>>, <<129168, 129197>>, <<129200, 129201>>,
    <<129280, 129619>>, <<129632, 129645>>, <<129648, 129660>>,
    <<129664, 129672>>, <<129680, 129725>>, <<129727, 129733>>,
    <<129742, 129755>>, <<129760, 129768>>, <<129776, 129784>>,
    <<129792, 129938>>, <<129940, 129994>>, <<130032, 130041>>,
    <<131072, 173791>>, <<173824, 177977>>, <<177984, 178205>>,
    <<178208, 183969>>, <<183984, 191456>>, <<194560, 195101>>,
    <<196608, 201546>>, <<201552, 205743>>, <<917760, 917999>>
  >>

\* unicode.GraphicRanges of the release the program was built with
GraphicRanges ==
  IF release \in {"go1.18", "go1.20"} THEN GraphicRanges13 ELSE GraphicRanges15

\* the binary search of unicode.Is over table[lo:hi]; range is the middle
\* entry, at offset m
RECURSIVE InGraphicRanges(_, _, _, _)
InGraphicProbe(table, r, lo, hi, m, range) ==
  IF range[1] <= r /\ r <= range[2] THEN TRUE
  ELSE IF r < range[1] THEN InGraphicRanges(table, r, lo, m)
  ELSE InGraphicRanges(table, r, m + 1, hi)

InGraphicRanges(table, r, lo, hi) ==
  IF lo >= hi THEN FALSE
  ELSE InGraphicProbe(table, r, lo, hi, lo + ((hi - lo) \div 2),
                      table[lo + ((hi - lo) \div 2) + 1])

\* unicode.IsGraphic(r)
IsGraphic(r) == InGraphicRanges(GraphicRanges, r, 0, Len(GraphicRanges))

\* "0123456789ABCDEF"[d]
UpperHex(d) == IF d < 10 THEN 48 + d ELSE 65 + (d - 10)

\* "0123456789abcdef"[d]
LowerHex(d) == IF d < 10 THEN 48 + d ELSE 97 + (d - 10)

\* url.shouldEscape(c, mode); the modes are "Path", "PathSegment", "Host",
\* "Zone", "UserPassword", "QueryComponent" and "Fragment"
shouldEscape(c, mode) ==
  IF (97 <= c /\ c <= 122) \/ (65 <= c /\ c <= 90) \/ (48 <= c /\ c <= 57) THEN FALSE
  ELSE IF mode \in {"Host", "Zone"}
          /\ c \in {33, 36, 38, 39, 40, 41, 42, 43, 44, 59, 61, Colon, LBracket,
                    RBracket, 60, 62, Quote}
       THEN FALSE
  ELSE IF c \in {45, 95, 46, 126} THEN FALSE
  ELSE IF c \in {36, 38, 43, 44, Slash, Colon, 59, 61, 63, 64}
          /\ mode \in {"Path", "PathSegment", "UserPassword", "QueryComponent",
                        "Fragment"}
       THEN (IF mode = "Path" THEN c = 63
             ELSE IF mode = "PathSegment" THEN c \in {Slash, 59, 44, 63}
             ELSE IF mode = "UserPassword" THEN c \in {64, Slash, 63, Colon}
             ELSE IF mode = "QueryComponent" THEN TRUE
             ELSE FALSE)
  ELSE IF mode = "Fragment" /\ c \in {33, 40, 41, 42} THEN FALSE
  ELSE TRUE

\* url.escape(s, mode)
RECURSIVE escape(_, _)
escape(s, mode) ==
  IF s = <<>> THEN <<>>
  ELSE (IF shouldEscape(Head(s), mode)
        THEN (IF Head(s) = 32 /\ mode = "QueryComponent" THEN <<43>>
              ELSE <<Percent, UpperHex(Head(s) \div 16), UpperHex(Head(s) % 16)>>)
        ELSE <<Head(s)>>) \o escape(Tail(s), mode)

\* url.PathEscape(s)
PathEscape(s) == escape(s, "PathSegment")

(***************************************************************************)
(* codec.go                                                                *)
(***************************************************************************)
ishex(c) == (48 <= c /\ c <= 57) \/ (97 <= c /\ c <= 102) \/ (65 <= c /\ c <= 70)

unhex(c) ==
  IF 48 <= c /\ c <= 57 THEN c - 48
  ELSE IF 97 <= c /\ c <= 102 THEN c - 97 + 10
  ELSE IF 65 <= c /\ c <= 70 THEN c - 65 + 10
  ELSE 0

\* checkReserved without ':'
checkReservedNoColon(b) ==
  b \in {Slash, 63, 35, LBracket, RBracket, 64, 33, 36, 38, 39, 40, 41, 42, 43, 44, 59, 61}

\* checkReserved(b): : / ? # [ ] @ ! $ & ' ( ) * + , ; =
checkReserved(b) ==
  b \in {Colon, Slash, 63, 35, LBracket, RBracket, 64, 33, 36, 38, 39, 40, 41,
         42, 43, 44, 59, 61}

\* the closure that leaves every decoded rune as it is
decodeLastRuneKeepRaw(buf) == buf

\* the closure decodeLastRune of decode, as a function of the buffer
decodeLastRune(buf) ==
  LET d == DecodeLastRune(buf) IN
  IF ~IsGraphic(d[1]) /\ d[1] # RuneError
  THEN Slice(buf, 0, Len(buf) - d[2]) \o PathEscape(EncodeRune(d[1]))
  ELSE buf

\* the loop of decode from offset i with buffer buf.  The escape test reads
\* uri[i+2] whenever uri[i] is '%', i+2 <= len(uri) and uri[i+1] is a hex
\* digit: with i+2 = len(uri) that index is out of range and decode panics.
RECURSIVE decodeLoop(_, _, _)
decodeLoop(u, i, buf) ==
  IF i >= Len(u) THEN [panic |-> FALSE, iri |-> buf]
  ELSE IF At(u, i) = Percent /\ i + 2 <= Len(u) /\ ishex(At(u, i + 1))
       THEN IF i + 2 >= Len(u) THEN [panic |-> TRUE, iri |-> buf]
            ELSE IF ishex(At(u, i + 2))
                 THEN LET b == unhex(At(u, i + 1)) * 16 + unhex(At(u, i + 2)) IN
                      IF checkReserved(b)
                      THEN decodeLoop(u, i + 3, buf \o Slice(u, i, i + 3))
                      ELSE decodeLoop(u, i + 3, decodeLastRune(Append(buf, b)))
                 ELSE decodeLoop(u, i + 1, decodeLastRune(Append(buf, At(u, i))))
       ELSE decodeLoop(u, i + 1, decodeLastRune(Append(buf, At(u, i))))

\* decode(uri)
decode(u) == decodeLoop(u, 0, <<>>)

\* curie.Decode(uri)
Decode(u) == decode(u)

(***************************************************************************)
(* net/url: url.Parse and URL.String, as curie.URL and curie.URI call      *)
(* them.                                                                   *)
(***************************************************************************)
\* the two url helpers ishex/unhex are those of the codec
\* url.unescape(s, mode) from offset i: err for a malformed escape or a byte
\* a host may not hold, else the unescaped text
\* the escape at offset i is one the mode does not admit: in a host only
\* %25 and the escapes of bytes from 0x80 on, in a zone %25, %20 and the
\* escapes of bytes a host may hold
unescapeRejects(t, i, mode, v) ==
  /\ Slice(t, i, i + 3) # <<Percent, 50, 53>>
  /\ \/ mode = "Host" /\ unhex(At(t, i + 1)) < 8
     \/ mode = "Zone" /\ v # 32 /\ shouldEscape(v, "Host")

RECURSIVE unescapeLoop(_, _, _, _)
unescapeLoop(t, i, mode, acc) ==
  IF i >= Len(t) THEN [err |-> FALSE, val |-> acc]
  ELSE IF At(t, i) = Percent
       THEN IF i + 2 >= Len(t) \/ ~ishex(At(t, i + 1)) \/ ~ishex(At(t, i + 2))
            THEN [err |-> TRUE, val |-> <<>>]
            ELSE IF unescapeRejects(t, i, mode,
                                    unhex(At(t, i + 1)) * 16 + unhex(At(t, i + 2)))
                 THEN [err |-> TRUE, val |-> <<>>]
                 ELSE unescapeLoop(t, i + 3, mode,
                        Append(acc, unhex(At(t, i + 1)) * 16 + unhex(At(t, i + 2))))
       ELSE IF At(t, i) = 43
            THEN unescapeLoop(t, i + 1, mode,
                              Append(acc, IF mode = "QueryComponent" THEN 32 ELSE 43))
       ELSE IF mode \in {"Host", "Zone"} /\ At(t, i) < 128
               /\ shouldEscape(At(t, i), "Host")
            THEN [err |-> TRUE, val |-> <<>>]
            ELSE unescapeLoop(t, i + 1, mode, Append(acc, At(t, i)))

unescape(t, mode) == unescapeLoop(t, 0, mode, <<>>)

\* url.validEncoded(s, mode)
validEncoded(t, mode) ==
  \A k \in 0..(Len(t) - 1) :
    \/ At(t, k) \in {33, 36, 38, 39, 40, 41, 42, 43, 44, 59, 61, Colon, 64}
    \/ At(t, k) \in {LBracket, RBracket, Percent}
    \/ ~shouldEscape(At(t, k), mode)

\* strings.ToLower for ASCII
RECURSIVE ToLower(_)
ToLower(t) ==
  IF t = <<>> THEN <<>>
  ELSE <<(IF 65 <= Head(t) /\ Head(t) <= 90 THEN Head(t) + 32 ELSE Head(t))>>
         \o ToLower(Tail(t))

\* url.getScheme(rawURL) from offset i
RECURSIVE getSchemeLoop(_, _)
getSchemeLoop(t, i) ==
  IF i >= Len(t) THEN [err |-> FALSE, scheme |-> <<>>, rest |-> t]
  ELSE LET c == At(t, i) IN
    IF (97 <= c /\ c <= 122) \/ (65 <= c /\ c <= 90) THEN getSchemeLoop(t, i + 1)
    ELSE IF (48 <= c /\ c <= 57) \/ c \in {43, 45, 46}
         THEN (IF i = 0 THEN [err |-> FALSE, scheme |-> <<>>, rest |-> t]
               ELSE getSchemeLoop(t, i + 1))
    ELSE IF c = Colon
         THEN (IF i = 0 THEN [err |-> TRUE, scheme |-> <<>>, rest |-> <<>>]
               ELSE [err |-> FALSE, scheme |-> Slice(t, 0, i),
                     rest |-> Slice(t, i + 1, Len(t))])
    ELSE [err |-> FALSE, scheme |-> <<>>, rest |-> t]

getScheme(t) == getSchemeLoop(t, 0)

\* the text before the first '/', as strings.Cut(s, "/") gives it
FirstSegment(t) ==
  IF IndexRune(t, Slash) = -1 THEN t ELSE Slice(t, 0, IndexRune(t, Slash))

\* strings.Index(s, "%25")
RECURSIVE IndexPercent25(_, _)
IndexPercent25(t, i) ==
  IF i + 3 > Len(t) THEN -1
  ELSE IF Slice(t, i, i + 3) = <<Percent, 50, 53>> THEN i
  ELSE IndexPercent25(t, i + 1)

\* url.validOptionalPort(port)
validOptionalPort(port) ==
  \/ port = <<>>
  \/ /\ At(port, 0) = Colon
     /\ \A k \in 1..(Len(port) - 1) : 48 <= At(port, k) /\ At(port, k) <= 57

\* the three unescaped parts of an IP literal with a zone, joined
joinHost(host1, host2, host3) ==
  IF host1.err \/ host2.err \/ host3.err THEN [err |-> TRUE, val |-> <<>>]
  ELSE [err |-> FALSE, val |-> host1.val \o host2.val \o host3.val]

\* parseHost of the releases up to Go 1.24.7 and 1.25.1 for an IP literal
\* whose zone starts at offset zone, -1 if it has none, and whose ']' is at
\* offset i
parseHostZone(host, i, zone) ==
  IF zone >= 0
  THEN joinHost(unescape(Slice(host, 0, zone), "Host"),
                unescape(Slice(host, zone, i), "Zone"),
                unescape(Slice(host, i, Len(host)), "Host"))
  ELSE unescape(host, "Host")

\* parseHost of the releases up to Go 1.24.7 and 1.25.1 for a host that
\* starts with '[' and has its last ']' at i
parseHostLiteral(host, i) ==
  IF i < 0 THEN [err |-> TRUE, val |-> <<>>]
  ELSE IF ~validOptionalPort(Slice(host, i + 1, Len(host))) THEN [err |-> TRUE, val |-> <<>>]
  ELSE parseHostZone(host, i, IndexPercent25(Slice(host, 0, i), 0))

\* netip.parseIPv4Fields(in, off, end, fields) over s = in[off:end]: the
\* loop from offset i, with the value val and the digLen digits of the octet
\* at hand and the octets fields that a dot has closed; err when it returns
\* an error, else the four octets ip
RECURSIVE parseIPv4Fields(_, _, _, _, _)
parseIPv4Fields(s, i, val, fields, digLen) ==
  IF i >= Len(s)
  THEN (IF Len(fields) < 3 THEN [err |-> TRUE, ip |-> <<>>]
        ELSE [err |-> FALSE, ip |-> Append(fields, val)])
  ELSE IF 48 <= At(s, i) /\ At(s, i) <= 57
       THEN (IF digLen = 1 /\ val = 0 THEN [err |-> TRUE, ip |-> <<>>]
             ELSE IF val * 10 + At(s, i) - 48 > 255 THEN [err |-> TRUE, ip |-> <<>>]
             ELSE parseIPv4Fields(s, i + 1, val * 10 + At(s, i) - 48, fields,
                                  digLen + 1))
  ELSE IF At(s, i) = Dot
       THEN (IF i = 0 \/ i = Len(s) - 1 \/ At(s, i - 1) = Dot
             THEN [err |-> TRUE, ip |-> <<>>]
             ELSE IF Len(fields) = 3 THEN [err |-> TRUE, ip |-> <<>>]
             ELSE parseIPv4Fields(s, i + 1, 0, Append(fields, val), 0))
  ELSE [err |-> TRUE, ip |-> <<>>]

\* the inner loop of netip.parseIPv6: the number off of hexadecimal digits s
\* has from offset off on and their value acc; the loop returns at the fifth
\* digit
RECURSIVE hexRun(_, _, _)
hexRun(s, off, acc) ==
  IF off < Len(s) /\ ishex(At(s, off)) /\ off <= 4
  THEN hexRun(s, off + 1, acc * 16 + unhex(At(s, off)))
  ELSE [off |-> off, acc |-> acc]

\* the end of netip.parseIPv6: the rest s must be empty, and the bytes ip
\* parsed fill the address exactly when there is no ellipsis; the zero bytes
\* of the ellipsis are put in where it stood
parseIPv6End(s, ip, ellipsis) ==
  IF Len(s) # 0 THEN [err |-> TRUE, ip |-> <<>>]
  ELSE IF Len(ip) < 16
       THEN (IF ellipsis < 0 THEN [err |-> TRUE, ip |-> <<>>]
             ELSE [err |-> FALSE,
                   ip |-> Slice(ip, 0, ellipsis)
                            \o [k \in 1..(16 - Len(ip)) |-> 0]
                            \o Slice(ip, ellipsis, Len(ip))])
  ELSE IF ellipsis >= 0 THEN [err |-> TRUE, ip |-> <<>>]
  ELSE [err |-> FALSE, ip |-> ip]

\* the loop of netip.parseIPv6 over the rest s, with the bytes ip of the
\* address filled and the ellipsis at byte ellipsis (-1: none yet); h is the
\* run of hexadecimal digits at the front of s.  err when the address is
\* refused, else its 16 bytes ip
RECURSIVE parseIPv6Groups(_, _, _)
parseIPv6Group(s, ip, ellipsis, h) ==
  IF h.off > 4 \/ h.off = 0 THEN [err |-> TRUE, ip |-> <<>>]
  ELSE IF h.off < Len(s) /\ At(s, h.off) = Dot
       THEN (IF ellipsis < 0 /\ Len(ip) # 12 THEN [err |-> TRUE, ip |-> <<>>]
             ELSE IF Len(ip) + 4 > 16 THEN [err |-> TRUE, ip |-> <<>>]
             ELSE IF parseIPv4Fields(s, 0, 0, <<>>, 0).err
                  THEN [err |-> TRUE, ip |-> <<>>]
             ELSE parseIPv6End(<<>>, ip \o parseIPv4Fields(s, 0, 0, <<>>, 0).ip,
                               ellipsis))
  ELSE IF h.off = Len(s)
       THEN parseIPv6End(<<>>, ip \o <<h.acc \div 256, h.acc % 256>>, ellipsis)
  ELSE IF At(s, h.off) # Colon THEN [err |-> TRUE, ip |-> <<>>]
  ELSE IF Len(s) - h.off = 1 THEN [err |-> TRUE, ip |-> <<>>]
  ELSE IF At(s, h.off + 1) # Colon
       THEN parseIPv6Groups(Slice(s, h.off + 1, Len(s)),
                            ip \o <<h.acc \div 256, h.acc % 256>>, ellipsis)
  ELSE IF ellipsis >= 0 THEN [err |-> TRUE, ip |-> <<>>]
  ELSE IF Len(s) - h.off = 2
       THEN parseIPv6End(<<>>, ip \o <<h.acc \div 256, h.acc % 256>>,
                         Len(ip) + 2)
  ELSE parseIPv6Groups(Slice(s, h.off + 2, Len(s)),
                       ip \o <<h.acc \div 256, h.acc % 256>>, Len(ip) + 2)

parseIPv6Groups(s, ip, ellipsis) ==
  IF Len(ip) >= 16 THEN parseIPv6End(s, ip, ellipsis)
  ELSE parseIPv6Group(s, ip, ellipsis, hexRun(s, 0, 0))

\* netip.parseIPv6(in), s being in without its zone: err when it returns an
\* error, else the 16 bytes ip of the address
parseIPv6(in, s) ==
  IF Len(s) + 1 = Len(in) THEN [err |-> TRUE, ip |-> <<>>]
  ELSE IF Len(s) >= 2 /\ At(s, 0) = Colon /\ At(s, 1) = Colon
       THEN (IF Len(s) = 2 THEN [err |-> FALSE, ip |-> [k \in 1..16 |-> 0]]
             ELSE parseIPv6Groups(Slice(s, 2, Len(s)), <<>>, 0))
  ELSE parseIPv6Groups(s, <<>>, -1)

\* netip.ParseAddr(s) from offset i: whether it returns an error and, when
\* it returns none, whether the address is an IPv4 address (Is4) and its
\* bytes ip, 4 of an IPv4 and 16 of an IPv6 address
RECURSIVE ParseAddr(_, _)
ParseAddr(s, i) ==
  IF i >= Len(s) THEN [err |-> TRUE, Is4 |-> FALSE, ip |-> <<>>]
  ELSE IF At(s, i) = Dot
       THEN [err |-> parseIPv4Fields(s, 0, 0, <<>>, 0).err,
             Is4 |-> ~parseIPv4Fields(s, 0, 0, <<>>, 0).err,
             ip |-> parseIPv4Fields(s, 0, 0, <<>>, 0).ip]
  ELSE IF At(s, i) = Colon
       THEN [err |-> parseIPv6(s, IF IndexRune(s, Percent) = -1 THEN s
                                  ELSE Slice(s, 0, IndexRune(s, Percent))).err,
             Is4 |-> FALSE,
             ip |-> parseIPv6(s, IF IndexRune(s, Percent) = -1 THEN s
                                 ELSE Slice(s, 0, IndexRune(s, Percent))).ip]
  ELSE IF At(s, i) = Percent THEN [err |-> TRUE, Is4 |-> FALSE, ip |-> <<>>]
  ELSE ParseAddr(s, i + 1)

\* parseHost of the releases from Go 1.24.8 and 1.25.2 on, from the unescaped
\* text between the brackets and the unescaped port: only an IPv6 address
\* may stand between the brackets.  Go 1.24.8, 1.24.9, 1.25.2 and 1.25.3
\* refuse an IPv4-mapped IPv6 address (Addr.Is4In6: the bytes 0 to 9 are
\* zero and the bytes 10 and 11 are 0xff) as well; the releases after them
\* accept it
parseHostAddr(hostname, colonPort) ==
  IF hostname.err \/ colonPort.err THEN [err |-> TRUE, val |-> <<>>]
  ELSE IF ParseAddr(hostname.val, 0).err \/ ParseAddr(hostname.val, 0).Is4
       THEN [err |-> TRUE, val |-> <<>>]
  ELSE IF /\ release = "go1.25.2"
          /\ Slice(ParseAddr(hostname.val, 0).ip, 0, 12)
               = <<0, 0, 0, 0, 0, 0, 0, 0, 0, 0, 255, 255>>
       THEN [err |-> TRUE, val |-> <<>>]
  ELSE [err |-> FALSE,
        val |-> <<LBracket>> \o hostname.val \o <<RBracket>> \o colonPort.val]

\* parseHost of the releases from Go 1.24.8 and 1.25.2 on for a host whose
\* last '[' is at openBracketIdx and whose last ']' is at closeBracketIdx;
\* zoneIdx is the offset of "%25" in the text between the two.  A ']' before
\* the '[' leaves the '[' in the port, which is refused
parseHostBrackets(host, openBracketIdx, closeBracketIdx, zoneIdx) ==
  IF closeBracketIdx < 0 THEN [err |-> TRUE, val |-> <<>>]
  ELSE IF ~validOptionalPort(Slice(host, closeBracketIdx + 1, Len(host)))
       THEN [err |-> TRUE, val |-> <<>>]
  ELSE parseHostAddr(
         IF zoneIdx >= 0
         THEN joinHost(unescape(Slice(host, openBracketIdx + 1,
                                      openBracketIdx + 1 + zoneIdx), "Host"),
                       unescape(Slice(host, openBracketIdx + 1 + zoneIdx,
                                      closeBracketIdx), "Zone"),
                       [err |-> FALSE, val |-> <<>>])
         ELSE unescape(Slice(host, openBracketIdx + 1, closeBracketIdx), "Host"),
         unescape(Slice(host, closeBracketIdx + 1, Len(host)), "Host"))

\* url.parseHost(host).  Up to Go 1.24.7 and 1.25.1 a host that starts with
\* '[' is an IP literal with any text between its brackets.  From Go 1.24.8
\* and 1.25.2 to Go 1.25.7 a host that holds a '[' is an IP literal that
\* starts after its last '[', the text before it is dropped; from Go 1.25.8
\* on a '[' that is not the first byte of the host is an error
parseHost(host) ==
  IF release = "go1.25.8" /\ LastIndexByte(host, LBracket) > 0
  THEN [err |-> TRUE, val |-> <<>>]
  ELSE IF /\ release \in {"go1.25.2", "go1.25.4", "go1.25.8"}
          /\ LastIndexByte(host, LBracket) # -1
  THEN parseHostBrackets(host, LastIndexByte(host, LBracket),
                         LastIndexByte(host, RBracket),
                         IndexPercent25(Slice(host, LastIndexByte(host, LBracket) + 1,
                                              LastIndexByte(host, RBracket)), 0))
  ELSE IF /\ release \in {"go1.18", "go1.20", "go1.21", "go1.22"}
          /\ HasPrefix(host, <<LBracket>>)
  THEN parseHostLiteral(host, LastIndexByte(host, RBracket))
  ELSE IF /\ LastIndexByte(host, Colon) # -1
          /\ ~validOptionalPort(Slice(host, LastIndexByte(host, Colon), Len(host)))
  THEN [err |-> TRUE, val |-> <<>>]
  ELSE unescape(host, "Host")

\* url.validUserinfo(s); a byte from 0x80 on belongs to a rune that is not
\* accepted
validUserinfo(t) ==
  \A k \in 0..(Len(t) - 1) :
    \/ (65 <= At(t, k) /\ At(t, k) <= 90)
    \/ (97 <= At(t, k) /\ At(t, k) <= 122)
    \/ (48 <= At(t, k) /\ At(t, k) <= 57)
    \/ At(t, k) \in {45, 46, 95, Colon, 126, 33, 36, 38, 39, 40, 41, 42, 43, 44,
                     59, 61, Percent, 64}

\* a url.URL with no field set; HasUser is User != nil, and Username,
\* Password and PasswordSet are the fields of *User
\* (Go 1.18 has no field OmitHost: it stays FALSE there)
NoURL ==
  [Scheme |-> <<>>, Opaque |-> <<>>, HasUser |-> FALSE, Username |-> <<>>,
   Password |-> <<>>, PasswordSet |-> FALSE, Host |-> <<>>, Path |-> <<>>,
   RawPath |-> <<>>, OmitHost |-> FALSE, ForceQuery |-> FALSE,
   RawQuery |-> <<>>, Fragment |-> <<>>, RawFragment |-> <<>>]

\* the parser's error: no URL is returned
NoParse == [err |-> TRUE, url |-> NoURL]

\* parseAuthority: the host h stored in u
setHost(u, h) ==
  IF h.err THEN NoParse ELSE [err |-> FALSE, url |-> [u EXCEPT !.Host = h.val]]

\* parseAuthority: the unescaped username and password stored in u
setUser(u, username, password, passwordSet) ==
  IF username.err \/ password.err THEN NoParse
  ELSE [err |-> FALSE,
        url |-> [u EXCEPT !.HasUser = TRUE, !.Username = username.val,
                          !.Password = password.val,
                          !.PasswordSet = passwordSet]]

\* parseAuthority: the userinfo, whose first ':' is at offset c (-1 if it
\* has none), unescaped into u
parseUserAt(u, userinfo, c) ==
  IF c = -1
  THEN setUser(u, unescape(userinfo, "UserPassword"),
               [err |-> FALSE, val |-> <<>>], FALSE)
  ELSE setUser(u, unescape(Slice(userinfo, 0, c), "UserPassword"),
               unescape(Slice(userinfo, c + 1, Len(userinfo)), "UserPassword"),
               TRUE)

\* parseAuthority after the host: r is the result of parsing the host
parseUser(r, userinfo) ==
  IF r.err THEN NoParse
  ELSE IF ~validUserinfo(userinfo) THEN NoParse
  ELSE parseUserAt(r.url, userinfo, IndexRune(userinfo, Colon))

\* url.parseAuthority(authority) on u: err, or u with User and Host set;
\* the userinfo ends at the last '@'
parseAuthority(u, authority) ==
  IF LastIndexByte(authority, 64) < 0 THEN setHost(u, parseHost(authority))
  ELSE parseUser(
         setHost(u, parseHost(Slice(authority, LastIndexByte(authority, 64) + 1,
                                    Len(authority)))),
         Slice(authority, 0, LastIndexByte(authority, 64)))

\* setPath with the unescaped path un
setPathTo(u, pth, un) ==
  IF un.err THEN NoParse
  ELSE [err |-> FALSE,
        url |-> [u EXCEPT !.Path = un.val,
                          !.RawPath = IF pth = escape(un.val, "Path") THEN <<>> ELSE pth]]

\* (*URL).setPath(p) on u
setPath(u, pth) == setPathTo(u, pth, unescape(pth, "Path"))

\* setFragment with the unescaped fragment un
setFragmentTo(u, f, un) ==
  IF un.err THEN NoParse
  ELSE [err |-> FALSE,
        url |-> [u EXCEPT !.Fragment = un.val,
                          !.RawFragment =
                            IF f = escape(un.val, "Fragment") THEN <<>> ELSE f]]

\* (*URL).setFragment(f) on u
setFragment(u, f) == setFragmentTo(u, f, unescape(f, "Fragment"))

\* a byte below 0x20 or 0x7f is in the text
stringContainsCTLByte(t) ==
  \E k \in 0..(Len(t) - 1) : At(t, k) < 32 \/ At(t, k) = 127

\* parse: the authority a0 = rest[2:], which ends at its first '/', at
\* offset i (-1: at its end), and the path after it
parseAuthorityAndPath(u, a0, i) ==
  IF parseAuthority(u, IF i >= 0 THEN Slice(a0, 0, i) ELSE a0).err THEN NoParse
  ELSE setPath(parseAuthority(u, IF i >= 0 THEN Slice(a0, 0, i) ELSE a0).url,
               IF i >= 0 THEN Slice(a0, i, Len(a0)) ELSE <<>>)

\* parse: what is left of the text after the scheme and the query, on the
\* URL u that holds these two; the releases from Go 1.19 on note in OmitHost
\* that a text with a scheme has a rooted path and no authority
parseRest(u, rest) ==
  IF ~HasPrefix(rest, <<Slash>>) /\ u.Scheme # <<>>
  THEN [err |-> FALSE, url |-> [u EXCEPT !.Opaque = rest]]
  ELSE IF ~HasPrefix(rest, <<Slash>>) /\ Contains(FirstSegment(rest), Colon)
  THEN NoParse
  ELSE IF /\ (u.Scheme # <<>> \/ ~HasPrefix(rest, <<Slash, Slash, Slash>>))
          /\ HasPrefix(rest, <<Slash, Slash>>)
  THEN parseAuthorityAndPath(u, Slice(rest, 2, Len(rest)),
                             IndexRune(Slice(rest, 2, Len(rest)), Slash))
  ELSE setPath([u EXCEPT !.OmitHost = /\ release # "go1.18"
                                      /\ u.Scheme # <<>>
                                      /\ HasPrefix(rest, <<Slash>>)],
               rest)

\* parse: the text after the scheme, whose first '?' is at offset q (-1 if
\* it has none); ForceQuery is set when rest ends with its only '?'
parseQuery(scheme, rest, q) ==
  parseRest(
    [NoURL EXCEPT !.Scheme = scheme,
                  !.ForceQuery = (rest # <<>> /\ q = Len(rest) - 1),
                  !.RawQuery = IF q = -1 \/ q = Len(rest) - 1 THEN <<>>
                               ELSE Slice(rest, q + 1, Len(rest))],
    IF q = -1 THEN rest ELSE Slice(rest, 0, q))

\* url.parse(rawURL, viaRequest) with viaRequest = false, as Parse calls it
parse(rawURL) ==
  IF stringContainsCTLByte(rawURL) THEN NoParse
  ELSE IF rawURL = <<42>> THEN [err |-> FALSE, url |-> [NoURL EXCEPT !.Path = <<42>>]]
  ELSE IF getScheme(rawURL).err THEN NoParse
  ELSE parseQuery(ToLower(getScheme(rawURL).scheme), getScheme(rawURL).rest,
                  IndexRune(getScheme(rawURL).rest, 63))

\* Parse: the fragment frag set on the parsed URL p
parseFragment(p, frag) ==
  IF p.err THEN NoParse
  ELSE IF frag = <<>> THEN p
  ELSE setFragment(p.url, frag)

\* url.Parse(rawURL): err, or the URL; the text is cut at its first '#'
urlParse(rawURL) ==
  IF IndexRune(rawURL, 35) = -1 THEN parseFragment(parse(rawURL), <<>>)
  ELSE parseFragment(parse(Slice(rawURL, 0, IndexRune(rawURL, 35))),
                     Slice(rawURL, IndexRune(rawURL, 35) + 1, Len(rawURL)))

\* the raw form unescapes, without an error, to the text
unescapesTo(un, t) == ~un.err /\ un.val = t

\* (*URL).EscapedPath()
EscapedPath(u) ==
  IF /\ u.RawPath # <<>>
     /\ validEncoded(u.RawPath, "Path")
     /\ unescapesTo(unescape(u.RawPath, "Path"), u.Path)
  THEN u.RawPath
  ELSE IF u.Path = <<42>> THEN <<42>>
  ELSE escape(u.Path, "Path")

\* (*URL).EscapedFragment()
EscapedFragment(u) ==
  IF /\ u.RawFragment # <<>>
     /\ validEncoded(u.RawFragment, "Fragment")
     /\ unescapesTo(unescape(u.RawFragment, "Fragment"), u.Fragment)
  THEN u.RawFragment
  ELSE escape(u.Fragment, "Fragment")

\* (*Userinfo).String() of the user of u
UserinfoString(u) ==
  escape(u.Username, "UserPassword")
    \o (IF u.PasswordSet THEN <<Colon>> \o escape(u.Password, "UserPassword")
        ELSE <<>>)

\* String: the scheme and the authority
urlAuthority(u) ==
  (IF u.Scheme # <<>> THEN u.Scheme \o <<Colon>> ELSE <<>>)
    \o (IF (u.Scheme # <<>> \/ u.Host # <<>> \/ u.HasUser)
           /\ ~(u.OmitHost /\ u.Host = <<>> /\ ~u.HasUser)
        THEN (IF u.Host # <<>> \/ u.Path # <<>> \/ u.HasUser
              THEN <<Slash, Slash>> ELSE <<>>)
               \o (IF u.HasUser THEN UserinfoString(u) \o <<64>> ELSE <<>>)
               \o (IF u.Host # <<>> THEN escape(u.Host, "Host") ELSE <<>>)
        ELSE <<>>)

\* String: the path written after the authority in buf: '/' goes between a
\* host and a path that does not start with it, and "./" in front of the
\* path when the buffer is still empty and the first segment of the path
\* holds ':'
urlWithPath(u, buf, path) ==
  IF path # <<>> /\ At(path, 0) # Slash /\ u.Host # <<>>
  THEN Append(buf, Slash) \o path
  ELSE IF Len(buf) = 0 /\ Contains(FirstSegment(path), Colon)
  THEN buf \o <<46, Slash>> \o path
  ELSE buf \o path

\* (*URL).String()
urlString(u) ==
  (IF u.Opaque # <<>>
   THEN (IF u.Scheme # <<>> THEN u.Scheme \o <<Colon>> ELSE <<>>) \o u.Opaque
   ELSE urlWithPath(u, urlAuthority(u), EscapedPath(u)))
    \o (IF u.ForceQuery \/ u.RawQuery # <<>> THEN <<63>> \o u.RawQuery ELSE <<>>)
    \o (IF u.Fragment # <<>> THEN <<35>> \o EscapedFragment(u) ELSE <<>>)

(***************************************************************************)
(* Prefixes: the namespace table and the conversions through it.  A table  *)
(* is a function from keys to stems.                                       *)
(***************************************************************************)
\* Namespaces.Lookup(prefix): the pair <<val, exists>>
Lookup(prefixes, prefix) ==
  IF prefix \in DOMAIN prefixes THEN <<prefixes[prefix], TRUE>> ELSE <<<<>>, FALSE>>

\* Namespaces.Create that keeps the escapes of the reference
CreateNoDecode(prefixes, u) ==
  LET hits == {key \in DOMAIN prefixes : HasPrefix(u, prefixes[key])} IN
  IF hits = {} THEN {[panic |-> FALSE, iri |-> u]}
  ELSE {[panic |-> FALSE,
         iri |-> key \o <<Colon>> \o Slice(u, Len(prefixes[key]), Len(u))] : key \in hits}

\* Namespaces.Create that cuts the stem one byte short
CreateOffByOne(prefixes, u) ==
  LET hits == {key \in DOMAIN prefixes : HasPrefix(u, prefixes[key])} IN
  IF hits = {} THEN {[panic |-> FALSE, iri |-> u]}
  ELSE {LET ref == Decode(Slice(u, Len(prefixes[key]) - 1, Len(u)))
        IN [panic |-> ref.panic,
            iri |-> IF ref.panic THEN <<>> ELSE key \o <<Colon>> \o ref.iri] : key \in hits}

\* Namespaces.Create(uri): the loop ranges over a Go map, whose order is not
\* specified, so the entry that answers is any entry whose stem is a prefix
\* of uri; the set of the outcomes the call can have
Create(prefixes, u) ==
  LET hits == {key \in DOMAIN prefixes : HasPrefix(u, prefixes[key])} IN
  IF hits = {} THEN {[panic |-> FALSE, iri |-> u]}
  ELSE {LET ref == Decode(Slice(u, Len(prefixes[key]), Len(u)))
        IN [panic |-> ref.panic,
            iri |-> IF ref.panic THEN <<>> ELSE key \o <<Colon>> \o ref.iri] : key \in hits}

\* curie.FromURI(prefixes, uri)
FromURI(prefixes, u) == Create(prefixes, u)

\* curie.URL that appends the whole text of the CURIE to the stem
URLWholeText(prefixes, x) ==
  IF Len(x) = 0 THEN [err |-> FALSE, url |-> NoURL]
  ELSE LET l == Lookup(prefixes, Schema(x))
       IN urlParse(IF l[2] THEN l[1] \o x ELSE x)

\* curie.URL(prefixes, iri): err, or the URL
URL(prefixes, x) ==
  IF Len(x) = 0 THEN [err |-> FALSE, url |-> NoURL]
  ELSE LET l == Lookup(prefixes, Schema(x))
       IN urlParse(IF l[2] THEN l[1] \o Reference(x) ELSE x)

\* curie.URI that answers a parser's error with the expanded text
URIExpandedOnError(prefixes, x) ==
  IF URL(prefixes, x).err
  THEN LET l == Lookup(prefixes, Schema(x))
       IN IF l[2] THEN l[1] \o Reference(x) ELSE x
  ELSE urlString(URL(prefixes, x).url)

\* curie.URI(prefixes, iri)
URI(prefixes, x) ==
  IF URL(prefixes, x).err THEN x ELSE urlString(URL(prefixes, x).url)

(***************************************************************************)
(* encoding/json for a Go string, as IRI.MarshalJSON and IRI.UnmarshalJSON *)
(* call it.                                                                *)
(***************************************************************************)
\* the bytes json.Marshal writes for one byte below 0x80 of a string (HTML
\* escaping on); the cases '\b' and '\f' are those Go 1.22 added, before it
\* the two bytes fall to the default case
jsonEncodeByte(b) ==
  IF b = Quote \/ b = Backslash THEN <<Backslash, b>>
  ELSE IF b = 8 /\ release \notin {"go1.18", "go1.20", "go1.21"} THEN <<Backslash, 98>>
  ELSE IF b = 12 /\ release \notin {"go1.18", "go1.20", "go1.21"} THEN <<Backslash, 102>>
  ELSE IF b = 10 THEN <<Backslash, 110>>
  ELSE IF b = 13 THEN <<Backslash, 114>>
  ELSE IF b = 9 THEN <<Backslash, 116>>
  ELSE IF b < 32 \/ b = 60 \/ b = 62 \/ b = 38
       THEN <<Backslash, 117, 48, 48, LowerHex(b \div 16), LowerHex(b % 16)>>
       ELSE <<b>>

\* the loop of json's appendString over the bytes of s from its front: a
\* byte below 0x80 by jsonEncodeByte, a byte that starts no rune as the escape
\* of U+FFFD,
\* U+2028 and U+2029 escaped, every other rune copied
RECURSIVE jsonEncodeBytes(_)
jsonEncodeBytes(s) ==
  IF s = <<>> THEN <<>>
  ELSE IF Head(s) < 128 THEN jsonEncodeByte(Head(s)) \o jsonEncodeBytes(Tail(s))
  ELSE LET d == DecodeRune(Slice(s, 0, IF Len(s) > 4 THEN 4 ELSE Len(s))) IN
    IF d[1] = RuneError /\ d[2] = 1
    THEN <<Backslash, 117, 102, 102, 102, 100>> \o jsonEncodeBytes(Tail(s))
    ELSE IF d[1] = 8232 \/ d[1] = 8233
    THEN <<Backslash, 117, 50, 48, 50, LowerHex(d[1] % 16)>>
           \o jsonEncodeBytes(Slice(s, d[2], Len(s)))
    ELSE Slice(s, 0, d[2]) \o jsonEncodeBytes(Slice(s, d[2], Len(s)))

\* json.Marshal(s) for a string s
jsonMarshal(s) == <<Quote>> \o jsonEncodeBytes(s) \o <<Quote>>

\* json's getu4 on b[i:end]: the value of the escape \uXXXX there, -1 when
\* there is none
getu4(b, i, end) ==
  IF /\ i + 6 <= end
     /\ At(b, i) = Backslash /\ At(b, i + 1) = 117
     /\ \A k \in 2..5 : ishex(At(b, i + k))
  THEN unhex(At(b, i + 2)) * 4096 + unhex(At(b, i + 3)) * 256
         + unhex(At(b, i + 4)) * 16 + unhex(At(b, i + 5))
  ELSE -1

\* utf16.IsSurrogate(r)
IsSurrogate(r) == 55296 <= r /\ r < 57344

\* utf16.DecodeRune(r1, r2)
utf16DecodeRune(r1, r2) ==
  IF 55296 <= r1 /\ r1 < 56320 /\ 56320 <= r2 /\ r2 < 57344
  THEN (r1 - 55296) * 1024 + (r2 - 56320) + 65536
  ELSE RuneError

\* the body of a JSON string literal, b[i:end], unquoted onto acc;
\* err is TRUE when the literal is malformed
RECURSIVE jsonUnquote(_, _, _, _)
jsonUnquote(b, i, end, acc) ==
  IF i >= end THEN [err |-> FALSE, val |-> acc]
  ELSE LET c == At(b, i) IN
    IF c = Quote \/ c < 32 THEN [err |-> TRUE, val |-> <<>>]
    ELSE IF c >= 128
    THEN LET d == DecodeRune(Slice(b, i, end)) IN
         jsonUnquote(b, i + d[2], end, acc \o EncodeRune(d[1]))
    ELSE IF c # Backslash THEN jsonUnquote(b, i + 1, end, Append(acc, c))
    ELSE IF i + 1 >= end THEN [err |-> TRUE, val |-> <<>>]
    ELSE LET e == At(b, i + 1) IN
      IF e = Quote \/ e = Backslash \/ e = Slash
      THEN jsonUnquote(b, i + 2, end, Append(acc, e))
      ELSE IF e = 98 THEN jsonUnquote(b, i + 2, end, Append(acc, 8))
      ELSE IF e = 102 THEN jsonUnquote(b, i + 2, end, Append(acc, 12))
      ELSE IF e = 110 THEN jsonUnquote(b, i + 2, end, Append(acc, 10))
      ELSE IF e = 114 THEN jsonUnquote(b, i + 2, end, Append(acc, 13))
      ELSE IF e = 116 THEN jsonUnquote(b, i + 2, end, Append(acc, 9))
      ELSE IF e = 117 /\ getu4(b, i, end) >= 0
      THEN LET rr == getu4(b, i, end)
               dec == utf16DecodeRune(rr, getu4(b, i + 6, end))
           IN IF IsSurrogate(rr) /\ dec # RuneError
              THEN jsonUnquote(b, i + 12, end, acc \o EncodeRune(dec))
              ELSE IF IsSurrogate(rr)
              THEN jsonUnquote(b, i + 6, end, acc \o EncodeRune(RuneError))
              ELSE jsonUnquote(b, i + 6, end, acc \o EncodeRune(rr))
      ELSE [err |-> TRUE, val |-> <<>>]

\* the document without the white space of JSON (space, \t, \r, \n) at its
\* front
RECURSIVE TrimSpaceLeft(_)
TrimSpaceLeft(b) ==
  IF b # <<>> /\ Head(b) \in {32, 9, 13, 10} THEN TrimSpaceLeft(Tail(b)) ELSE b

\* the document without the white space at its end
RECURSIVE TrimSpaceRight(_)
TrimSpaceRight(b) ==
  IF b # <<>> /\ b[Len(b)] \in {32, 9, 13, 10} THEN TrimSpaceRight(Slice(b, 0, Len(b) - 1))
  ELSE b

\* json.Unmarshal(b, &val) for a string val that is "" before the call:
\* white space around the value is skipped, a string literal is unquoted,
\* null leaves val alone, any other document is an error
jsonUnmarshal(b) ==
  LET v == TrimSpaceRight(TrimSpaceLeft(b)) IN
  IF v = <<110, 117, 108, 108>> THEN [err |-> FALSE, val |-> <<>>]
  ELSE IF Len(v) >= 2 /\ At(v, 0) = Quote /\ At(v, Len(v) - 1) = Quote
       THEN jsonUnquote(v, 1, Len(v) - 1, <<>>)
       ELSE [err |-> TRUE, val |-> <<>>]

\* IRI.Safe
Safe(x) ==
  IF Len(x) = 0 THEN <<>> ELSE <<LBracket>> \o x \o <<RBracket>>

\* IRI.MarshalJSON
MarshalJSON(x) ==
  IF Len(x) = 0 THEN jsonMarshal(<<>>) ELSE jsonMarshal(Safe(x))

\* IRI.UnmarshalJSON on the receiver target: the error it returns, whether
\* it panics (val[1:len(val)-1] with len(val) = 1 is out of range) and the
\* receiver after the call
UnmarshalJSON(target, b) ==
  LET j == jsonUnmarshal(b)
      val == j.val
  IN IF j.err THEN [err |-> "json", panic |-> FALSE, iri |-> target]
     ELSE IF Len(val) = 0 THEN [err |-> "none", panic |-> FALSE, iri |-> Empty]
     ELSE IF At(val, 0) # LBracket /\ At(val, Len(val) - 1) # RBracket
          THEN [err |-> "format", panic |-> FALSE, iri |-> target]
     ELSE IF 1 > Len(val) - 1
          THEN [err |-> "none", panic |-> TRUE, iri |-> target]
     ELSE [err |-> "none", panic |-> FALSE, iri |-> Slice(val, 1, Len(val) - 1)]

(***************************************************************************)
(* Inputs and operations of the JSON specification.                        *)
(***************************************************************************)
\* 'a', '[', ']' and '"'
JsonAlphabet == {97, LBracket, RBracket, Quote}

\* the string values of the documents handed to UnmarshalJSON
\* texts json.Marshal does not copy: a line feed, a carriage return, a tab,
\* a control byte, a backspace and a form feed in brackets, '<', the bytes of
\* U+20AC, of U+2028 and of U+1F600, and the byte 0xff, which starts no rune
JsonEscaped ==
  {<<LBracket, 10, RBracket>>, <<LBracket, 13, RBracket>>,
   <<LBracket, 9, RBracket>>, <<LBracket, 1, RBracket>>,
   <<LBracket, 8, RBracket>>, <<LBracket, 12, RBracket>>,
   <<LBracket, 60, RBracket>>, <<LBracket, 226, 130, 172, RBracket>>,
   <<LBracket, 226, 128, 168, RBracket>>,
   <<LBracket, 240, 159, 152, 128, RBracket>>, <<LBracket, 255, RBracket>>}

JsonTexts == TextsUpTo(JsonAlphabet, MaxJsonLen) \cup JsonEscaped

\* documents that are not a string literal: a, "a, [], "\a"
JsonMalformed ==
  {<<97>>, <<Quote, 97>>, <<LBracket, RBracket>>, <<Quote, Backslash, 97, Quote>>}

\* string literals json.Marshal does not write: "[\u20ac]", the surrogate
\* pair "[\ud83d\ude00]", the lone surrogate "[\ud83d]", "[\u00e9]", the
\* byte 0xff in a literal, and white space around "[a]" and around null
JsonForeign ==
  {<<Quote, LBracket, Backslash, 117, 50, 48, 97, 99, RBracket, Quote>>,
   <<Quote, LBracket, Backslash, 117, 100, 56, 51, 100,
     Backslash, 117, 100, 101, 48, 48, RBracket, Quote>>,
   <<Quote, LBracket, Backslash, 117, 100, 56, 51, 100, RBracket, Quote>>,
   <<Quote, LBracket, Backslash, 117, 48, 48, 101, 57, RBracket, Quote>>,
   <<Quote, LBracket, 255, RBracket, Quote>>,
   <<32, 10, Quote, LBracket, 97, RBracket, Quote, 9, 13>>,
   <<32, 110, 117, 108, 108, 10>>}

JsonDocs == {jsonMarshal(v) : v \in JsonTexts} \cup JsonMalformed \cup JsonForeign

\* every behaviour of the JSON specification is one call on a drawn receiver.
\* The codec calls encoding/json only, which is the same in the releases up
\* to Go 1.21 and the same in those from Go 1.22 on: the first and the last
\* release of each of the two are drawn
InitJSON ==
  /\ iri \in TextsUpTo(JsonAlphabet, MaxJsonLen - 2)
            \cup {Slice(v, 1, Len(v) - 1) : v \in JsonEscaped}
  /\ uri = <<>>
  /\ ns = <<>>
  /\ call = NoCall
  /\ release \in GoReleases \cap {"go1.18", "go1.21", "go1.22", "go1.25.8"}

\* b, err := x.MarshalJSON()
DoMarshalJSON ==
  /\ call.op = "none"
  /\ call' = [op |-> "MarshalJSON", panic |-> FALSE, in |-> iri, out |-> MarshalJSON(iri)]
  /\ UNCHANGED <<release, iri, uri, ns>>

\* err := x.UnmarshalJSON(b)
DoUnmarshalJSON ==
  \E b \in JsonDocs :
    LET r == UnmarshalJSON(iri, b) IN
      /\ call.op = "none"
      /\ iri' = r.iri
      /\ call' = [op |-> "UnmarshalJSON", panic |-> r.panic, in |-> b,
                  before |-> iri, err |-> r.err, after |-> r.iri]
      /\ UNCHANGED <<release, uri, ns>>

NextJSON == DoMarshalJSON \/ DoUnmarshalJSON

SpecJSON == InitJSON /\ [][NextJSON]_vars

(***************************************************************************)
(* Inputs and operations of the codec specification.                       *)
(***************************************************************************)
\* '%', '3', 'A', 'a' and 'W'
DecAlphabet == {Percent, 51, 65, 97, 87}

\* the hexadecimal digits in both cases
HexDigits == (48..57) \cup (65..70) \cup (97..102)

\* at most one byte of '%', 'a', ':' around an escape
DecContext == TextsUpTo({Percent, 97, Colon}, 1)

\* every two-digit escape in a context
DecEscaped ==
  {p \o <<Percent, h, l>> \o t : p \in DecContext, t \in DecContext,
                                  h \in HexDigits, l \in HexDigits}

\* the UTF-8 encodings of U+0080..U+00FF, U+0340..U+03BF, U+1FC0..U+1FFF,
\* U+2000..U+203F and U+FFFD, of U+20AC, U+4E2D, U+05D0, U+07C0, U+3000,
\* U+1F600, U+E000 and U+10FFFF, and of U+061D, U+0CF3 and U+1FAE8, which
\* Unicode 13.0.0 leaves unassigned and Unicode 15.0.0 holds
DecRuneBytes ==
  {<<l, c>> : l \in {194, 195, 205, 206}, c \in 128..191}
    \cup {<<225, 191, c>> : c \in 128..191}
    \cup {<<226, 128, c>> : c \in 128..191}
    \cup {<<239, 191, 189>>}
    \cup {<<226, 130, 172>>, <<228, 184, 173>>, <<215, 144>>, <<223, 128>>,
          <<227, 128, 128>>, <<240, 159, 152, 128>>, <<238, 128, 128>>,
          <<244, 143, 191, 191>>, <<216, 157>>, <<224, 179, 179>>,
          <<240, 159, 171, 168>>}

\* the bytes written as %XX escapes, in upper or lower case hex digits
RECURSIVE PctEncode(_, _)
PctEncode(bs, upper) ==
  IF bs = <<>> THEN <<>>
  ELSE <<Percent,
         IF upper THEN UpperHex(Head(bs) \div 16) ELSE LowerHex(Head(bs) \div 16),
         IF upper THEN UpperHex(Head(bs) % 16) ELSE LowerHex(Head(bs) % 16)>>
         \o PctEncode(Tail(bs), upper)

\* a code point, escaped or raw, between at most one 'a' on each side
DecRunes ==
  {p \o e \o t : p \in {<<>>, <<97>>}, t \in {<<>>, <<97>>},
                 e \in {PctEncode(bs, up) : bs \in DecRuneBytes, up \in BOOLEAN}
                        \cup DecRuneBytes}

\* the escape of '%' in front of two hexadecimal digits: %25XX
DecTwice ==
  {<<Percent, 50, 53, h, l>> : h \in HexDigits, l \in HexDigits}

DecodeInputs ==
  TextsUpTo(DecAlphabet, MaxUriLen) \cup DecEscaped \cup DecRunes \cup DecTwice

InitDecode ==
  /\ iri = Empty
  /\ uri \in DecodeInputs
  /\ ns = <<>>
  /\ call = NoCall
  /\ release \in GoReleases

\* iri := curie.Decode(uri)
DoDecode ==
  LET r == Decode(uri) IN
    /\ call' = [op |-> "Decode", panic |-> r.panic, in |-> uri, out |-> r.iri]
    /\ UNCHANGED <<release, iri, uri, ns>>

\* curie.Decode(iri) of the text the first Decode returned
DoDecodeAgain ==
  /\ call.op = "Decode"
  /\ ~call.panic
  /\ call' = [op |-> "DecodeAgain", panic |-> Decode(call.out).panic,
              in |-> call.out, out |-> Decode(call.out).iri]
  /\ UNCHANGED <<release, iri, uri, ns>>

NextDecode == DoDecode \/ DoDecodeAgain

SpecDecode == InitDecode /\ [][NextDecode]_vars

(***************************************************************************)
(* Inputs and operations of the namespace specification.                   *)
(***************************************************************************)
\* "http://h/"
StemH == <<104, 116, 116, 112, 58, 47, 47, 104, 47>>

\* "http://h/w"
StemHW == <<104, 116, 116, 112, 58, 47, 47, 104, 47, 119>>

\* the tables {}, {"w": "http://h/"} and
\* {"w": "http://h/", "v": "http://h/w"}
NsTables ==
  {<<>>, <<119>> :> StemH, (<<119>> :> StemH) @@ (<<118>> :> StemHW)}

\* 'w', ':', '/', '%', '4' and ' '
NsAlphabet == {119, Colon, Slash, Percent, 52, 32}

\* references that hold a query, a fragment or a userinfo mark: w?w, w?,
\* w#w, #w w, #%4, ?#, w@w, w?w#w
NsMarked ==
  {<<119, 63, 119>>, <<119, 63>>, <<119, 35, 119>>, <<35, 119, 32, 119>>,
   <<35, Percent, 52>>, <<63, 35>>, <<119, 64, 119>>,
   <<119, 63, 119, 35, 119>>}

\* texts with an authority of their own: //[::1], //[w, //[w]w, //w@w,
\* //w:1@w, //w @w, //[%251], //w[w], //[::%25w], //w[::1], //w[::1]:4,
\* //[::ffff:1.2.3.4], //[::ffff:102:304], //[4::1.2.3.4], //[::1.2.3.4]
NsAuthorities ==
  {<<Slash, Slash, LBracket, Colon, Colon, 49, RBracket>>,
   <<Slash, Slash, LBracket, 119>>,
   <<Slash, Slash, LBracket, 119, RBracket, 119>>,
   <<Slash, Slash, 119, 64, 119>>,
   <<Slash, Slash, 119, Colon, 49, 64, 119>>,
   <<Slash, Slash, 119, 32, 64, 119>>,
   <<Slash, Slash, LBracket, Percent, 50, 53, 49, RBracket>>,
   <<Slash, Slash, 119, LBracket, 119, RBracket>>,
   <<Slash, Slash, LBracket, Colon, Colon, Percent, 50, 53, 119, RBracket>>,
   <<Slash, Slash, 119, LBracket, Colon, Colon, 49, RBracket>>,
   <<Slash, Slash, 119, LBracket, Colon, Colon, 49, RBracket, Colon, 52>>,
   <<Slash, Slash, LBracket, Colon, Colon, 102, 102, 102, 102, Colon,
     49, Dot, 50, Dot, 51, Dot, 52, RBracket>>,
   <<Slash, Slash, LBracket, Colon, Colon, 102, 102, 102, 102, Colon,
     49, 48, 50, Colon, 51, 48, 52, RBracket>>,
   <<Slash, Slash, LBracket, 52, Colon, Colon, 49, Dot, 50, Dot, 51, Dot, 52,
     RBracket>>,
   <<Slash, Slash, LBracket, Colon, Colon, 49, Dot, 50, Dot, 51, Dot, 52,
     RBracket>>}

\* longer references: w/4:, w%44, %44/ and w%4w
NsLong ==
  {<<119, Slash, 52, Colon>>, <<119, Percent, 52, 52>>,
   <<Percent, 52, 52, Slash>>, <<119, Percent, 52, 119>>}

NsRefs == TextsUpTo(NsAlphabet, MaxRefLen) \cup NsMarked \cup NsLong

\* the URIs handed to FromURI: under the stem "http://h/", and bare
NsUris == {StemH \o r : r \in NsRefs} \cup NsRefs

\* the CURIEs handed to URI: with the schema "w", and bare
NsIris == {<<119, Colon>> \o r : r \in NsRefs} \cup NsRefs \cup NsAuthorities

\* tables of one entry with other keys and stems: {"w:w": "http://h/"},
\* {"w": "HTTP://h/"}, {"w": "http://h"}, {"w": "w:"}, {"": "w://4/"},
\* {"4": "w://w/4?"} and {"w/": "w://w@4:4/w/"}
NsStemTables ==
  {<<119, Colon, 119>> :> StemH,
   <<119>> :> <<72, 84, 84, 80, 58, 47, 47, 104, 47>>,
   <<119>> :> <<104, 116, 116, 112, 58, 47, 47, 104>>,
   <<119>> :> <<119, Colon>>,
   <<>> :> <<119, Colon, Slash, Slash, 52, Slash>>,
   <<52>> :> <<119, Colon, Slash, Slash, 119, Slash, 52, 63>>,
   <<119, Slash>> :> <<119, Colon, Slash, Slash, 119, 64, 52, Colon, 52, Slash,
                       119, Slash>>}

\* a behaviour converts one drawn URI and resolves the CURIE it gives, or
\* resolves one drawn CURIE; with a table of NsStemTables the URI is drawn
\* under the stem of the table and the CURIE with its key
InitNS ==
  /\ \/ /\ ns \in NsTables
        /\ \/ (uri \in NsUris /\ iri = Empty)
           \/ (uri = <<>> /\ iri \in NsIris)
     \/ /\ ns \in NsStemTables
        /\ \/ /\ uri \in {ns[key] \o r :
                            key \in DOMAIN ns,
                            r \in TextsUpTo(NsAlphabet, MaxRefLen - 1)}
              /\ iri = Empty
           \/ /\ uri = <<>>
              /\ iri \in {key \o <<Colon>> \o r :
                            key \in DOMAIN ns,
                            r \in TextsUpTo(NsAlphabet, MaxRefLen - 1)}
  /\ call = NoCall
  /\ release \in GoReleases

\* x = curie.FromURI(ns, uri)
DoFromURI ==
  \E r \in FromURI(ns, uri) :
    /\ call.op = "none"
    /\ iri' = (IF r.panic THEN iri ELSE r.iri)
    /\ call' = [op |-> "FromURI", panic |-> r.panic, in |-> uri, out |-> r.iri]
    /\ UNCHANGED <<release, uri, ns>>

\* x = curie.FromURI(ns, uri) once more, with the same table and the same
\* uri
DoFromURIAgain ==
  \E r \in FromURI(ns, uri) :
    /\ call.op = "FromURI"
    /\ ~call.panic
    /\ iri' = (IF r.panic THEN iri ELSE r.iri)
    /\ call' = [op |-> "FromURIAgain", panic |-> r.panic, in |-> uri,
                first |-> call.out, out |-> r.iri]
    /\ UNCHANGED <<release, uri, ns>>

\* s := curie.URI(ns, x)
DoURI ==
  /\ call.op \in {"none", "FromURI"}
  /\ ~call.panic
  /\ call' = [op |-> "URI", panic |-> FALSE, prev |-> call.op, in |-> iri,
              out |-> URI(ns, iri)]
  /\ UNCHANGED <<release, iri, uri, ns>>

\* u, err := curie.URL(ns, x)
DoURL ==
  /\ call.op = "none"
  /\ call' = [op |-> "URL", panic |-> FALSE, in |-> iri,
              err |-> URL(ns, iri).err, url |-> URL(ns, iri).url]
  /\ UNCHANGED <<release, iri, uri, ns>>

NextNS == DoFromURI \/ DoFromURIAgain \/ DoURI \/ DoURL

SpecNS == InitNS /\ [][NextNS]_vars

(***************************************************************************)
(* Ordering of CURIEs: Rank and Lt.                                        *)
(***************************************************************************)
\* the built-in ranks
EMPTY == 0
PREFIX == 1
REFERENCE == 2

\* Go's a < b on strings: byte-wise lexicographic order
RECURSIVE StrLess(_, _)
StrLess(a, b) ==
  IF b = <<>> THEN FALSE
  ELSE IF a = <<>> THEN TRUE
  ELSE IF a[1] # b[1] THEN a[1] < b[1]
  ELSE StrLess(Tail(a), Tail(b))

\* curie.Rank(iri)
Rank(x) ==
  IF Len(x) = 0 THEN EMPTY
  ELSE IF IndexRune(x, Colon) = Len(x) - 1 THEN PREFIX
  ELSE REFERENCE

\* curie.Lt(a, b)
Lt(a, b) ==
  IF Rank(a) # Rank(b) THEN Rank(a) < Rank(b)
  ELSE StrLess(a, b)

\* 'a', '1', ':' and '/'
OrdAlphabet == {97, 49, Colon, Slash}

OrdTexts == TextsUpTo(OrdAlphabet, MaxOrdLen)

InitOrder ==
  /\ iri \in OrdTexts
  /\ uri = <<>>
  /\ ns = <<>>
  /\ call = NoCall
  /\ release \in GoReleases

\* curie.Lt(x, b) for a drawn b
DoLt ==
  \E b \in OrdTexts :
    /\ call.op = "none"
    /\ call' = [op |-> "Lt", panic |-> FALSE, a |-> iri, b |-> b,
                out |-> Lt(iri, b)]
    /\ UNCHANGED <<release, iri, uri, ns>>

NextOrder == DoLt

SpecOrder == InitOrder /\ [][NextOrder]_vars

(***************************************************************************)
(* Package urn: the URN type, its JSON codec and the transforms between    *)
(* URNs and CURIEs.                                                        *)
(***************************************************************************)
\* "urn:"
UrnPrefix == <<117, 114, 110, Colon>>

\* strings.Split(s, sep) for a one-byte separator
RECURSIVE stringsSplit(_, _)
stringsSplit(s, sep) ==
  LET n == IndexRune(s, sep) IN
  IF n = -1 THEN <<s>>
  ELSE <<Slice(s, 0, n)>> \o stringsSplit(Slice(s, n + 1, Len(s)), sep)

\* strings.Join(elems, sep) for a one-byte separator
RECURSIVE stringsJoin(_, _)
stringsJoin(elems, sep) ==
  IF elems = <<>> THEN <<>>
  ELSE IF Len(elems) = 1 THEN elems[1]
  ELSE elems[1] \o <<sep>> \o stringsJoin(Tail(elems), sep)

\* filepath.Join(elem...): the elements from the first non-empty one on,
\* joined by '/' and cleaned; "" when every element is empty
RECURSIVE filepathJoin(_)
filepathJoin(elem) ==
  IF elem = <<>> THEN <<>>
  ELSE IF elem[1] # <<>> THEN Clean(stringsJoin(elem, Slash))
  ELSE filepathJoin(Tail(elem))

\* urn.New(schema, ref)
urnNew(schema, ref) ==
  IF Len(ref) > 0 THEN UrnPrefix \o schema \o <<Colon>> \o ref
  ELSE UrnPrefix \o schema

\* urn.Split(urn)
urnSplit(u) ==
  IF Len(u) < 5 THEN <<<<>>, <<>>>>
  ELSE LET s == Slice(u, 4, Len(u))
           n == IndexRune(s, Colon)
       IN IF n = -1 THEN <<s, <<>>>>
          ELSE <<Slice(s, 0, n), Slice(s, n + 1, Len(s))>>

\* urn.ToIRI(urn)
ToIRI(u) ==
  New(urnSplit(u)[1], filepathJoin(stringsSplit(urnSplit(u)[2], Colon)))

\* urn.ToURN(iri)
ToURN(x) ==
  urnNew(Split(x)[1], stringsJoin(stringsSplit(Split(x)[2], Slash), Colon))

\* URN.MarshalJSON: whether it returns an error, and the document
urnMarshalJSON(u) ==
  IF Len(u) = 0 \/ (Len(u) > 5 /\ HasPrefix(u, UrnPrefix))
  THEN [err |-> FALSE, out |-> jsonMarshal(u)]
  ELSE [err |-> TRUE, out |-> <<>>]

\* URN.UnmarshalJSON on the receiver target: the error it returns and the
\* receiver after the call
urnUnmarshalJSON(target, b) ==
  LET j == jsonUnmarshal(b)
      val == j.val
  IN IF j.err THEN [err |-> "json", urn |-> target]
     ELSE IF Len(val) = 0 \/ (Len(val) > 5 /\ HasPrefix(val, UrnPrefix))
          THEN [err |-> "none", urn |-> val]
          ELSE [err |-> "format", urn |-> target]

(***************************************************************************)
(* Inputs and operations of the URN specification.  uri holds the URN, iri *)
(* the CURIE.                                                              *)
(***************************************************************************)
\* 'a', ':', '/' and '.'
UrnAlphabet == {97, Colon, Slash, Dot}

\* the namespace identifiers and schemes: "" and "a"
UrnNids == {<<>>, <<97>>}

\* the name-specific strings and the references
UrnRefs == TextsUpTo(UrnAlphabet, MaxUrnLen)

\* texts converted to the type URN as they are: "", "a", "a:a", "/a/a",
\* "urn:", "urn:a", "urn:aa", "urn:a:a", "urna:a", and "urn:a:" before a
\* backspace and before a form feed
UrnLiterals ==
  {<<>>, <<97>>, <<97, Colon, 97>>, <<Slash, 97, Slash, 97>>,
   UrnPrefix, UrnPrefix \o <<97>>, UrnPrefix \o <<97, 97>>,
   UrnPrefix \o <<97, Colon, 97>>, <<117, 114, 110, 97, Colon, 97>>,
   UrnPrefix \o <<97, Colon, 8>>, UrnPrefix \o <<97, Colon, 12>>}

\* documents that are not a string literal: 10, "a, null
UrnMalformed == {<<49, 48>>, <<Quote, 97>>, <<110, 117, 108, 108>>}

\* the documents handed to URN.UnmarshalJSON
UrnDocs == {jsonMarshal(t) : t \in UrnLiterals} \cup UrnMalformed

InitURN ==
  /\ iri = Empty
  /\ uri = <<>>
  /\ ns = <<>>
  /\ call = NoCall
  /\ release \in GoReleases

\* u := urn.New(nid, nss)
DoUrnNew ==
  \E nid \in UrnNids, nss \in UrnRefs :
    /\ call.op = "none"
    /\ uri' = urnNew(nid, nss)
    /\ call' = [op |-> "urn.New", panic |-> FALSE, nid |-> nid, nss |-> nss,
                out |-> urnNew(nid, nss)]
    /\ UNCHANGED <<release, iri, ns>>

\* u := urn.URN(text)
DoUrnOf ==
  \E t \in UrnLiterals :
    /\ call.op = "none"
    /\ uri' = t
    /\ call' = [op |-> "urn.URN", panic |-> FALSE, out |-> t]
    /\ UNCHANGED <<release, iri, ns>>

\* c := curie.New(schema, ref)
DoNewIRI ==
  \E schema \in UrnNids, ref \in UrnRefs :
    /\ call.op = "none"
    /\ iri' = New(schema, ref)
    /\ call' = [op |-> "curie.New", panic |-> FALSE, schema |-> schema,
                ref |-> ref, out |-> New(schema, ref)]
    /\ UNCHANGED <<release, uri, ns>>

\* urn.ToIRI(u), of a URN from urn.New or from ToURN(c)
DoToIRI ==
  /\ \/ call.op = "urn.New"
     \/ call.op = "ToURN" /\ call.from = "curie.New"
  /\ call' = [op |-> "ToIRI", panic |-> FALSE, from |-> call.op,
              in |-> call.out, out |-> ToIRI(call.out)]
  /\ UNCHANGED <<release, iri, uri, ns>>

\* urn.ToURN(c), of a CURIE from curie.New or from ToIRI(u)
DoToURN ==
  /\ \/ call.op = "curie.New"
     \/ call.op = "ToIRI" /\ call.from = "urn.New"
  /\ call' = [op |-> "ToURN", panic |-> FALSE, from |-> call.op,
              in |-> call.out, out |-> ToURN(call.out)]
  /\ UNCHANGED <<release, iri, uri, ns>>

\* bytes, err := json.Marshal(u)
DoUrnMarshalJSON ==
  /\ call.op \in {"urn.New", "urn.URN"}
  /\ call' = [op |-> "urn.MarshalJSON", panic |-> FALSE, from |-> call.op,
              in |-> uri, err |-> urnMarshalJSON(uri).err,
              out |-> urnMarshalJSON(uri).out]
  /\ UNCHANGED <<release, iri, uri, ns>>

\* err := json.Unmarshal(doc, &recv) for a fresh recv
UrnUnmarshalOf(doc) ==
  /\ call' = [op |-> "urn.UnmarshalJSON", panic |-> FALSE, from |-> call.op,
              doc |-> doc, err |-> urnUnmarshalJSON(<<>>, doc).err,
              out |-> urnUnmarshalJSON(<<>>, doc).urn]
  /\ UNCHANGED <<release, iri, uri, ns>>

\* the document just marshalled is unmarshalled, or a drawn document is
DoUrnUnmarshalJSON ==
  \/ call.op = "urn.MarshalJSON" /\ ~call.err /\ UrnUnmarshalOf(call.out)
  \/ call.op = "none" /\ \E doc \in UrnDocs : UrnUnmarshalOf(doc)

NextURN ==
  \/ DoUrnNew \/ DoUrnOf \/ DoNewIRI \/ DoToIRI \/ DoToURN
  \/ DoUrnMarshalJSON \/ DoUrnUnmarshalJSON

SpecURN == InitURN /\ [][NextURN]_vars

(***************************************************************************)
(* Properties of the algebra.                                              *)
(***************************************************************************)
\* the text begins with ':'
LeadingColon(x) == Len(x) > 0 /\ At(x, 0) = Colon

\* C1 as stated: for every IRI text x, New(Schema(x), Reference(x)) = x.
C1_Original ==
  call.op = "Split" => New(call.schema, call.ref) = call.in

\* C1 amended: for every IRI text x that does not begin with ':',
\* New(Schema(x), Reference(x)) = x.
C1_SplitNewRoundTrip ==
  (call.op = "Split" /\ ~LeadingColon(call.in))
    => New(call.schema, call.ref) = call.in

C1_Witness ==
  /\ call.op = "Split"
  /\ ~LeadingColon(call.in)
  /\ call.schema # <<>>
  /\ Contains(call.ref, Colon)

\* C2 as stated: for every scheme, reference r and segments s1..sn (n >= 1),
\* Cut(Join(New(scheme, r), s1..sn), n) = New(scheme, r).
C2_Original ==
  (call.op = "Join" /\ Len(call.segments) >= 1)
    => Cut(call.out, Len(call.segments)) = call.in

\* C2 amended: the same, for segments that are non-empty and contain neither
\* '/' nor ':', joined to a CURIE whose text does not begin with ':'.
C2_JoinCutRoundTrip ==
  (/\ call.op = "Join"
   /\ Len(call.segments) >= 1
   /\ ~LeadingColon(call.in)
   /\ \A k \in 1..Len(call.segments) :
        /\ call.segments[k] # <<>>
        /\ ~Contains(call.segments[k], Slash)
        /\ ~Contains(call.segments[k], Colon))
    => Cut(call.out, Len(call.segments)) = call.in

C2_Witness ==
  /\ call.op = "Join"
  /\ Len(call.segments) = 2
  /\ \A k \in 1..2 : call.segments[k] = <<97>>
  /\ Schema(call.in) # <<>>
  /\ Contains(Reference(call.in), Slash)
  /\ Cut(call.out, 2) = call.in

\* C3 as stated: Join(x) with no segment, or with empty segments only,
\* returns x, for every IRI text x.
C3_Original ==
  (call.op = "Join" /\ \A k \in 1..Len(call.segments) : call.segments[k] = <<>>)
    => call.out = call.in

\* C3 amended: the same for every x that does not begin with ':'.
C3_JoinEmptyNoOp ==
  (/\ call.op = "Join"
   /\ ~LeadingColon(call.in)
   /\ \A k \in 1..Len(call.segments) : call.segments[k] = <<>>)
    => call.out = call.in

C3_Witness ==
  /\ call.op = "Join"
  /\ Len(call.segments) = 2
  /\ \A k \in 1..2 : call.segments[k] = <<>>
  /\ Schema(call.in) = <<>>
  /\ Contains(call.in, Slash)
  /\ call.out = call.in

\* the elements of a reference: the texts between its '/' bytes, none for
\* the empty reference
RECURSIVE Elements(_)
Elements(r) ==
  IF IndexRune(r, Slash) = -1 THEN <<r>>
  ELSE <<Slice(r, 0, IndexRune(r, Slash))>>
         \o Elements(Slice(r, IndexRune(r, Slash) + 1, Len(r)))

Segments(r) == IF r = <<>> THEN <<>> ELSE Elements(r)

\* the reference is k >= 0 non-empty segments joined by '/'
WellSegmented(r) == \A j \in 1..Len(Segments(r)) : Segments(r)[j] # <<>>

\* the texts of a list joined by '/'
RECURSIVE JoinWith(_)
JoinWith(l) ==
  IF l = <<>> THEN <<>>
  ELSE IF Len(l) = 1 THEN l[1]
  ELSE l[1] \o <<Slash>> \o JoinWith(Tail(l))

\* the non-empty texts of a list, in their order
NonEmpty(l) == SelectSeq(l, LAMBDA t : t # <<>>)

\* C13 as stated: for every scheme s without ':' (the empty one included)
\* and every reference r, Split(New(s, r)) = (s, r), and Schema and
\* Reference give s and r.
C13_Original ==
  (call.op = "New" /\ ~Contains(call.schema, Colon))
    => /\ Split(call.out) = <<call.schema, call.ref>>
       /\ Schema(call.out) = call.schema
       /\ Reference(call.out) = call.ref

\* C13 amended: the same for every non-empty scheme s without ':' and every
\* reference r, and for the empty scheme and every r without ':'.
C13_NewSplitRoundTrip ==
  (/\ call.op = "New"
   /\ ~Contains(call.schema, Colon)
   /\ (call.schema # <<>> \/ ~Contains(call.ref, Colon)))
    => /\ Split(call.out) = <<call.schema, call.ref>>
       /\ Schema(call.out) = call.schema
       /\ Reference(call.out) = call.ref

C13_Witness ==
  /\ call.op = "New"
  /\ call.schema = <<97>>
  /\ call.ref = <<97, Colon, 97, Slash, 97>>
  /\ Split(call.out) = <<call.schema, call.ref>>

\* both segments of a Join of two are non-empty and hold no '/'
TwoPlainSegments ==
  /\ Len(call.segments) = 2
  /\ \A k \in 1..2 : call.segments[k] # <<>> /\ ~Contains(call.segments[k], Slash)

\* C14 as stated: for every x and non-empty segments a, b without '/',
\* Cut(Join(x, a, b), 1) = Join(x, a).
C14_Original ==
  (call.op = "Join" /\ TwoPlainSegments)
    => Cut(call.out, 1) = Join(call.in, <<call.segments[1]>>)

\* C14 amended: the same for every x that does not begin with ':' and has
\* a non-empty scheme or is joined with segments that hold no ':'.
C14_CutUndoesLastJoin ==
  (/\ call.op = "Join"
   /\ TwoPlainSegments
   /\ ~LeadingColon(call.in)
   /\ \/ Schema(call.in) # <<>>
      \/ \A k \in 1..2 : ~Contains(call.segments[k], Colon))
    => Cut(call.out, 1) = Join(call.in, <<call.segments[1]>>)

C14_Witness ==
  /\ call.op = "Join"
  /\ call.in = <<97, Colon, 97>>
  /\ call.segments = <<<<97>>, <<Colon>>>>
  /\ call.out = <<97, Colon, 97, Slash, 97, Slash, Colon>>
  /\ Cut(call.out, 1) = <<97, Colon, 97, Slash, 97>>

\* the reference C15 names for Join(New(s, r), segments)
C15_Expected ==
  New(call.parts[1],
      JoinWith((IF call.parts[2] = <<>> THEN <<>> ELSE <<call.parts[2]>>)
                 \o NonEmpty(call.segments)))

\* C15 as stated: for x = New(s, r) with s without ':', Join(x, s1..sn) is
\* New(s, r') with r' the texts r, s1, .., sn that are not empty, joined by
\* one '/' each.
C15_Original ==
  (call.op = "Join" /\ call.parts # <<>> /\ ~Contains(call.parts[1], Colon))
    => call.out = C15_Expected

\* C15 amended: the same for a non-empty s without ':' and every r, and for
\* the empty s and every r without ':'.
C15_JoinAppendsNonEmptySegments ==
  (/\ call.op = "Join"
   /\ call.parts # <<>>
   /\ ~Contains(call.parts[1], Colon)
   /\ (call.parts[1] # <<>> \/ ~Contains(call.parts[2], Colon)))
    => call.out = C15_Expected

C15_Witness ==
  /\ call.op = "Join"
  /\ call.parts = <<<<97>>, <<>>>>
  /\ call.segments = <<<<>>, <<97>>>>
  /\ call.out = <<97, Colon, 97>>

\* C16 as stated: Schema(Join(x, s1..sn)) = Schema(x) for every x and every
\* list of segments.
C16_Original ==
  call.op = "Join" => Schema(call.out) = Schema(call.in)

\* C16 amended: the same for every x that does not begin with ':' and has
\* a non-empty scheme or is joined with segments that hold no ':'.
C16_JoinKeepsSchema ==
  (/\ call.op = "Join"
   /\ ~LeadingColon(call.in)
   /\ \/ Schema(call.in) # <<>>
      \/ \A k \in 1..Len(call.segments) : ~Contains(call.segments[k], Colon))
    => Schema(call.out) = Schema(call.in)

C16_Witness ==
  /\ call.op = "Join"
  /\ Schema(call.in) = <<97>>
  /\ call.segments = <<<<Colon>>, <<97, Slash, 97>>>>
  /\ Schema(call.out) = <<97>>
  /\ call.out # call.in

\* the largest of two integers
Max(a, b) == IF a >= b THEN a ELSE b

\* every segment of the reference is free of ':'
ColonFree(r) == ~Contains(r, Colon)

\* C17 as stated: for x = New(s, r) with r made of k >= 0 non-empty
\* segments without ':' and every n >= 0, Cut(x, n) is New(s, the first
\* max(k - n, 0) segments joined by '/').
C17_Original ==
  (/\ call.op = "Cut"
   /\ call.n >= 0
   /\ call.parts # <<>>
   /\ WellSegmented(call.parts[2])
   /\ ColonFree(call.parts[2]))
    => call.out =
         New(call.parts[1],
             JoinWith(SubSeq(Segments(call.parts[2]), 1,
                             Max(Len(Segments(call.parts[2])) - call.n, 0))))

\* C17 amended: the same for a scheme s that holds no ':'.
C17_CutRemovesLastSegments ==
  (/\ call.op = "Cut"
   /\ call.n >= 0
   /\ call.parts # <<>>
   /\ ~Contains(call.parts[1], Colon)
   /\ WellSegmented(call.parts[2])
   /\ ColonFree(call.parts[2]))
    => call.out =
         New(call.parts[1],
             JoinWith(SubSeq(Segments(call.parts[2]), 1,
                             Max(Len(Segments(call.parts[2])) - call.n, 0))))

C17_Witness ==
  /\ call.op = "Cut"
  /\ call.parts = <<<<97>>, <<97, Slash, 97, 97, Slash, 97>>>>
  /\ call.n = 2
  /\ call.out = <<97, Colon, 97>>

\* the segments of the reference the value at hand was built from
BuiltSegments == Segments(call.parts[2])

\* C18 as stated, for the schemes New and Split keep exactly (non-empty,
\* without ':'): for x = New(s, r) with r made of k >= 0 non-empty segments,
\* Base(x) is the last segment ("" when k = 0) and Path(x) is New(s, the
\* first k - 1 segments joined by '/') (x itself when k = 0).
C18_BasePathOfSegments ==
  (/\ call.op \in {"Base", "Path"}
   /\ call.parts # <<>>
   /\ call.parts[1] # <<>>
   /\ ~Contains(call.parts[1], Colon)
   /\ WellSegmented(call.parts[2]))
    => LET k == Len(BuiltSegments) IN
       /\ call.op = "Base" =>
            call.out = (IF k = 0 THEN <<>> ELSE BuiltSegments[k])
       /\ call.op = "Path" =>
            call.out = (IF k = 0 THEN call.in
                        ELSE New(call.parts[1], JoinWith(SubSeq(BuiltSegments, 1, k - 1))))

\* what C19 names for Head and Tail of the value built from s and r
C19_Expected ==
  LET k == Len(BuiltSegments) IN
  /\ call.op = "Head" =>
       call.out = (IF k = 0 THEN <<>> ELSE BuiltSegments[1])
  /\ call.op = "Tail" =>
       call.out = (IF k = 0 THEN call.in
                   ELSE New(call.parts[1], JoinWith(SubSeq(BuiltSegments, 2, k))))

\* C19 as stated: for x = New(s, r) with r made of k >= 0 non-empty
\* segments, Head(x) is the first segment ("" when k = 0) and Tail(x) is
\* New(s, the other k - 1 segments joined by '/') (x itself when k = 0).
C19_Original ==
  (/\ call.op \in {"Head", "Tail"}
   /\ call.parts # <<>>
   /\ WellSegmented(call.parts[2]))
    => C19_Expected

\* C19 amended: the same for a non-empty scheme s without ':' and every such
\* r, and for the empty s and every such r without ':'.
C19_HeadTailOfSegments ==
  (/\ call.op \in {"Head", "Tail"}
   /\ call.parts # <<>>
   /\ ~Contains(call.parts[1], Colon)
   /\ (call.parts[1] # <<>> \/ ~Contains(call.parts[2], Colon))
   /\ WellSegmented(call.parts[2]))
    => C19_Expected

C19_Witness ==
  /\ call.op = "Tail"
  /\ call.parts = <<<<97>>, <<97, Slash, Dot, Dot, Slash, 97>>>>
  /\ call.out = <<97, Colon, Dot, Dot, Slash, 97>>
  /\ curieHead(call.in) = <<97>>

(***************************************************************************)
(* Properties of the JSON codec.                                           *)
(***************************************************************************)
\* the string value of a document, as far as it is a string literal
DocValue(b) == jsonUnmarshal(b).val

\* the text is in safe form: it starts with '[' and ends with ']'
Bracketed(val) ==
  Len(val) > 0 /\ At(val, 0) = LBracket /\ At(val, Len(val) - 1) = RBracket

\* C7 as stated: UnmarshalJSON returns a format error and leaves the target
\* unchanged for every non-empty string value that does not both start with
\* '[' and end with ']'.
C7_UnbracketedIsFormatError ==
  (/\ call.op = "UnmarshalJSON"
   /\ ~jsonUnmarshal(call.in).err
   /\ DocValue(call.in) # <<>>
   /\ ~Bracketed(DocValue(call.in)))
    => (call.err = "format" /\ ~call.panic /\ call.after = call.before)

\* C8 as stated: for every CURIE x, MarshalJSON of x writes the string "" for
\* the empty x and the string '[' + x + ']' otherwise, and UnmarshalJSON of
\* that output gives x back without an error.
C8_MarshalUnmarshalRoundTrip ==
  call.op = "MarshalJSON" =>
    /\ ~jsonUnmarshal(call.out).err
    /\ DocValue(call.out) =
         (IF call.in = <<>> THEN <<>> ELSE <<LBracket>> \o call.in \o <<RBracket>>)
    /\ UnmarshalJSON(<<97>>, call.out) = [err |-> "none", panic |-> FALSE, iri |-> call.in]

(***************************************************************************)
(* Properties of the codec.                                                *)
(***************************************************************************)
\* offset k of the text starts a '%' followed by two hex digits
EscapeAt(u, k) ==
  /\ k + 2 < Len(u)
  /\ At(u, k) = Percent
  /\ ishex(At(u, k + 1))
  /\ ishex(At(u, k + 2))

\* the byte an escape at offset k stands for
EscapedByte(u, k) == unhex(At(u, k + 1)) * 16 + unhex(At(u, k + 2))

\* the 18 reserved bytes : / ? # [ ] @ ! $ & ' ( ) * + , ; =
Reserved == {58, 47, 63, 35, 91, 93, 64, 33, 36, 38, 39, 40, 41, 42, 43, 44, 59, 61}

\* number of offsets of the text that hold the byte c
Count(u, c) == Cardinality({k \in 0..(Len(u) - 1) : At(u, k) = c})

\* the text ends with t
HasSuffix(u, t) == Len(t) <= Len(u) /\ Slice(u, Len(u) - Len(t), Len(u)) = t

\* C9 as stated: Decode returns normally for every input, and an input of
\* graphic ASCII in which no '%' is followed by two hex digits comes back
\* unchanged ('%%', '%Ww', a '%' with fewer than two bytes after it).
C9_MalformedEscapePassThrough ==
  call.op = "Decode" =>
    /\ ~call.panic
    /\ (\A k \in 0..(Len(call.in) - 1) : ~EscapeAt(call.in, k)) => call.out = call.in

\* C10: whenever Decode returns, every escape of a reserved byte in the
\* input, at any offset and in either case of the hex digits, is in the
\* output as the same three bytes, followed by the decoding of the rest of
\* the input; and the output holds each reserved byte exactly as often as
\* the input does, so none was unescaped.
C10_ReservedEscapeKept ==
  (call.op = "Decode" /\ ~call.panic) =>
    /\ \A k \in 0..(Len(call.in) - 1) :
         (EscapeAt(call.in, k) /\ EscapedByte(call.in, k) \in Reserved)
           => HasSuffix(call.out,
                        Slice(call.in, k, k + 3)
                          \o Decode(Slice(call.in, k + 3, Len(call.in))).iri)
    /\ \A c \in Reserved : Count(call.out, c) = Count(call.in, c)

C10_Witness ==
  /\ call.op = "Decode"
  /\ ~call.panic
  /\ Len(call.in) = 5
  /\ EscapeAt(call.in, 1)
  /\ EscapedByte(call.in, 1) = Colon
  /\ At(call.in, 3) = 97
  /\ At(call.in, 0) = Colon
  /\ At(call.in, 4) = 97

\* the text holds no '%'
NoPercent(u) == ~Contains(u, Percent)

\* the text is graphic ASCII
GraphicASCII(u) == \A k \in 0..(Len(u) - 1) : 32 <= At(u, k) /\ At(u, k) <= 126

\* n escapes follow each other from offset k of the text
EscapeRun(u, k, n) == \A j \in 0..(n - 1) : EscapeAt(u, k + 3 * j)

\* the n bytes the escapes from offset k stand for
EscapedBytes(u, k, n) == [j \in 1..n |-> EscapedByte(u, k + 3 * (j - 1))]

\* the bytes are the UTF-8 encoding of exactly one code point
OneCodePoint(bs) ==
  /\ bs # <<>>
  /\ DecodeRune(bs)[2] = Len(bs)
  /\ (DecodeRune(bs)[1] # RuneError \/ bs = <<239, 191, 189>>)

\* the text is valid UTF-8
RECURSIVE ValidUTF8(_)
ValidUTF8(u) ==
  \/ u = <<>>
  \/ LET d == DecodeRune(u) IN
       /\ OneCodePoint(Slice(u, 0, d[2]))
       /\ ValidUTF8(Slice(u, d[2], Len(u)))

\* the text is valid UTF-8 made of graphic code points
RECURSIVE GraphicText(_)
GraphicText(u) ==
  \/ u = <<>>
  \/ LET d == DecodeRune(u) IN
       /\ OneCodePoint(Slice(u, 0, d[2]))
       /\ IsGraphic(d[1])
       /\ GraphicText(Slice(u, d[2], Len(u)))

\* C11: when the input is graphic ASCII without '%' around the escapes of
\* the bytes of one valid code point that is not a reserved byte, Decode
\* gives the same text with the escapes replaced by the code point itself
\* when it is graphic, and by its escapes in upper case hex digits when it
\* is not (the control bytes %00 to %1F among them); and a text of graphic
\* code points without '%' comes back unchanged.
C11_EscapedCodePointDecoded ==
  (call.op = "Decode" /\ ~call.panic) =>
    /\ \A k \in 0..(Len(call.in) - 1), n \in 1..4 :
         LET pre == Slice(call.in, 0, k)
             post == Slice(call.in, k + 3 * n, Len(call.in))
             bs == EscapedBytes(call.in, k, n)
         IN (/\ EscapeRun(call.in, k, n)
             /\ NoPercent(pre) /\ GraphicASCII(pre)
             /\ NoPercent(post) /\ GraphicASCII(post)
             /\ OneCodePoint(bs)
             /\ ~(n = 1 /\ bs[1] \in Reserved))
            => /\ call.out = pre \o (IF IsGraphic(DecodeRune(bs)[1])
                                     THEN bs ELSE PctEncode(bs, TRUE)) \o post
               /\ (n = 1 /\ bs[1] < 32) => call.out = pre \o PctEncode(bs, TRUE) \o post
               /\ (n = 1 /\ 32 <= bs[1] /\ bs[1] <= 126) => call.out = pre \o bs \o post
    /\ (NoPercent(call.in) /\ GraphicText(call.in)) => call.out = call.in

\* %f0%9f%98%80 (U+1F600, graphic) after an 'a'
C11_Witness ==
  /\ call.op = "Decode"
  /\ ~call.panic
  /\ call.in = <<97>> \o PctEncode(<<240, 159, 152, 128>>, FALSE)
  /\ call.out = <<97, 240, 159, 152, 128>>
  /\ OneCodePoint(EscapedBytes(call.in, 1, 4))

\* C12 as stated: the output of Decode is valid UTF-8; octets that do not
\* form a valid code point are in the output as escapes, never raw.
C12_OutputIsValidUTF8 ==
  (call.op = "Decode" /\ ~call.panic /\ GraphicASCII(call.in))
    => ValidUTF8(call.out)

(***************************************************************************)
(* Properties of the namespace resolver.                                   *)
(***************************************************************************)
\* the text holds only unreserved bytes (letters, digits, - . _ ~), '/'
\* and ':'
PlainRef(r) ==
  \A k \in 0..(Len(r) - 1) :
    LET c == At(r, k) IN
      \/ (97 <= c /\ c <= 122) \/ (65 <= c /\ c <= 90) \/ (48 <= c /\ c <= 57)
      \/ c \in {45, 46, 95, 126, Slash, Colon}

\* the keys of the table whose stem is a prefix of the text
Matching(u) == {key \in DOMAIN ns : HasPrefix(u, ns[key])}

\* the text that follows the stem of key in u
AfterStem(u, key) == Slice(u, Len(ns[key]), Len(u))

\* C4 as stated: with a table of one entry k -> stem, URI(ns, FromURI(ns, u))
\* is u for every URI u that starts with stem.
C4_Original ==
  (/\ call.op = "URI"
   /\ call.prev = "FromURI"
   /\ Cardinality(DOMAIN ns) = 1
   /\ Matching(uri) # {})
    => call.out = uri

\* the stem is an absolute URL in the form the URL parser prints, with an
\* authority ("//" after the scheme) that a '/' ends, such as "http://h/"
PrintedStem(stem) ==
  /\ ~urlParse(stem).err
  /\ urlParse(stem).url.Scheme # <<>>
  /\ urlString(urlParse(stem).url) = stem
  /\ HasPrefix(Slice(stem, Len(urlParse(stem).url.Scheme) + 1, Len(stem)),
               <<Slash, Slash>>)
  /\ HasPrefix(urlParse(stem).url.Path, <<Slash>>)

\* C4 amended: with a table of one entry k -> stem, k without ':' and stem
\* an absolute URL in the form the URL parser prints whose authority a '/'
\* ends, URI(ns, FromURI(ns, u)) is u for every u = stem + r in which r
\* holds only unreserved characters, '/' and ':'.
C4_LosslessOnPlainReferences ==
  (/\ call.op = "URI"
   /\ call.prev = "FromURI"
   /\ Cardinality(DOMAIN ns) = 1
   /\ Matching(uri) # {}
   /\ \A key \in Matching(uri) :
        /\ ~Contains(key, Colon)
        /\ PrintedStem(ns[key])
        /\ PlainRef(AfterStem(uri, key)))
    => call.out = uri

C4_Witness ==
  /\ call.op = "URI"
  /\ call.prev = "FromURI"
  /\ Cardinality(DOMAIN ns) = 1
  /\ uri = StemH \o <<119, Slash, 52, Colon>>
  /\ call.in = <<119, Colon, 119, Slash, 52, Colon>>
  /\ call.out = uri

\* C5 as stated: URI(ns, x) is "" for the empty x, and stem + Reference(x)
\* when Schema(x) is a key of ns with value stem.
C5_Original ==
  call.op = "URI" =>
    /\ call.in = <<>> => call.out = <<>>
    /\ (call.in # <<>> /\ Schema(call.in) \in DOMAIN ns)
         => call.out = ns[Schema(call.in)] \o Reference(call.in)

\* C5 amended: URI(ns, x) is "" for the empty x, and stem + Reference(x)
\* when Schema(x) is a key of ns whose value stem is an absolute URL in the
\* form the URL parser prints whose authority a '/' ends, and Reference(x)
\* holds only unreserved characters, '/' and ':'.
C5_URIExpandsKnownSchema ==
  call.op = "URI" =>
    /\ call.in = <<>> => call.out = <<>>
    /\ (/\ call.in # <<>>
        /\ Schema(call.in) \in DOMAIN ns
        /\ PrintedStem(ns[Schema(call.in)])
        /\ PlainRef(Reference(call.in)))
         => call.out = ns[Schema(call.in)] \o Reference(call.in)

C5_Witness ==
  /\ call.op = "URI"
  /\ call.prev = "none"
  /\ Schema(call.in) = <<119>>
  /\ Reference(call.in) = <<52, Slash, 119>>
  /\ call.out = StemH \o <<52, Slash, 119>>

\* C20 as stated: whenever Schema(x) is not a key of the table, URI(ns, x)
\* is the text of x.
C20_MissIsPassthrough ==
  (call.op = "URI" /\ Schema(call.in) \notin DOMAIN ns)
    => call.out = call.in

\* C6: when a stem of the table is a prefix of uri, FromURI gives
\* key + ":" + Decode(uri without that stem) for an entry key -> stem whose
\* stem is a prefix (and panics exactly when that Decode panics); when no
\* stem is a prefix it gives uri unchanged.
C6_FromURIStripsStemAndDecodes ==
  call.op = "FromURI" =>
    IF Matching(call.in) = {}
    THEN ~call.panic /\ call.out = call.in
    ELSE \E key \in Matching(call.in) :
           LET d == decode(AfterStem(call.in, key)) IN
             /\ call.panic = d.panic
             /\ ~d.panic => call.out = key \o <<Colon>> \o d.iri

C6_Witness ==
  /\ call.op = "FromURI"
  /\ ~call.panic
  /\ Cardinality(Matching(call.in)) = 2
  /\ call.in = StemH \o <<119, Percent, 52, 52>>
  /\ call.out = <<118, Colon, 68>>

\* the text URL hands to the parser: stem + Reference(x) when Schema(x) is a
\* key of the table, the text of x otherwise
Resolved(x) ==
  IF Schema(x) \in DOMAIN ns THEN ns[Schema(x)] \o Reference(x) ELSE x

\* C21: when the resolved text of a non-empty x cannot be parsed as a URL,
\* URL(ns, x) returns the error and URI(ns, x) returns the text of x, also
\* when Schema(x) is a key of ns; URL of the empty CURIE returns the empty
\* URL and no error.
C21_ParseErrorKeepsText ==
  /\ call.op = "URL" =>
        /\ call.in = <<>> => (~call.err /\ call.url = NoURL)
        /\ (call.in # <<>> /\ urlParse(Resolved(call.in)).err) => call.err
  /\ (call.op = "URI" /\ call.in # <<>> /\ urlParse(Resolved(call.in)).err)
        => call.out = call.in

C21_Witness ==
  /\ call.op = "URI"
  /\ call.prev = "none"
  /\ <<119>> \in DOMAIN ns
  /\ call.in = <<119, Colon, Percent, 52>>
  /\ urlParse(StemH \o <<Percent, 52>>).err
  /\ call.out = <<119, Colon, Percent, 52>>

(***************************************************************************)
(* Properties of the ordering.                                             *)
(***************************************************************************)
\* the segments of a CURIE: none for the empty CURIE, otherwise the scheme
\* (the text before the first ':', empty when there is no ':') followed by
\* the '/'-delimited segments of the reference
OrdSegments(x) ==
  IF x = <<>> THEN <<>>
  ELSE LET n == IndexRune(x, Colon) IN
       IF n = -1 THEN <<<<>>>> \o Segments(x)
       ELSE <<Slice(x, 0, n)>> \o Segments(Slice(x, n + 1, Len(x)))

\* lexicographic order of two lists of texts, text by text
RECURSIVE ListLess(_, _)
ListLess(l, m) ==
  IF m = <<>> THEN FALSE
  ELSE IF l = <<>> THEN TRUE
  ELSE IF l[1] # m[1] THEN StrLess(l[1], m[1])
  ELSE ListLess(Tail(l), Tail(m))

\* the order of the claim: fewer segments first, then segment by segment
SegmentLess(a, b) ==
  IF Len(OrdSegments(a)) # Len(OrdSegments(b))
  THEN Len(OrdSegments(a)) < Len(OrdSegments(b))
  ELSE ListLess(OrdSegments(a), OrdSegments(b))

\* C22 as stated: Lt(a, b) holds exactly when a has fewer segments than b,
\* or as many and a comes first in the lexicographic segment-by-segment
\* comparison; Lt(x, x) is false.
C22_LtOrdersBySegments ==
  call.op = "Lt" =>
    /\ call.out = SegmentLess(call.a, call.b)
    /\ call.a = call.b => ~call.out

(***************************************************************************)
(* Properties of package urn.                                              *)
(***************************************************************************)
\* C23 as stated: ToURN(ToIRI(u)) = u for every URN u returned by urn.New,
\* and ToIRI(ToURN(c)) = c for every CURIE c returned by curie.New.
C23_TransformsAreInverse ==
  /\ (call.op = "ToURN" /\ call.from = "ToIRI") => call.out = uri
  /\ (call.op = "ToIRI" /\ call.from = "ToURN") => call.out = iri

\* the JSON string literal whose characters are the bytes of t
Literal(t) == <<Quote>> \o t \o <<Quote>>

\* C25 as stated: a URN returned by urn.New marshals without error to its
\* own text as a JSON string, and that document unmarshals without error
\* to the same URN; MarshalJSON reports an error only for a non-empty text
\* that does not start with "urn:", and so does UnmarshalJSON for a
\* document that is a JSON string.
C25_UrnCodecRoundTrip ==
  /\ (call.op = "urn.MarshalJSON" /\ call.from = "urn.New")
       => (~call.err /\ call.out = Literal(call.in))
  /\ (call.op = "urn.UnmarshalJSON" /\ call.from = "urn.MarshalJSON")
       => (call.err = "none" /\ call.out = uri)
  /\ (call.op = "urn.MarshalJSON" /\ call.err)
       => (call.in # <<>> /\ ~HasPrefix(call.in, UrnPrefix))
  /\ (call.op = "urn.UnmarshalJSON" /\ call.err = "format")
       => \E t \in UrnLiterals :
            /\ call.doc = Literal(t)
            /\ t # <<>>
            /\ ~HasPrefix(t, UrnPrefix)

(***************************************************************************)
(* Further properties of the algebra, the codecs and the namespaces.       *)
(***************************************************************************)
\* C24 as stated: no CURIE returned by New, Join, Cut, Path, Tail or
\* FromURI has a text that begins with ':'.
C24_NoLeadingColon ==
  call.op \in {"New", "Join", "Cut", "Path", "Tail", "FromURI"}
    => ~LeadingColon(call.out)

\* C26 as stated: UnmarshalJSON never panics on a document that is a JSON
\* string; it ends with a CURIE or with an error.
C26_UnmarshalNeverPanics ==
  (call.op = "UnmarshalJSON" /\ ~jsonUnmarshal(call.in).err) => ~call.panic

\* C27 as stated: a second FromURI with the same table and the same uri
\* returns the CURIE the first one returned.
C27_FromURIIsFunction ==
  (call.op = "FromURIAgain" /\ ~call.panic) => call.out = call.first

\* C28 as stated: Decode applied to the output of Decode returns that
\* output.
C28_DecodeIdempotent ==
  call.op = "DecodeAgain" => (~call.panic /\ call.out = call.in)

\* the CURIE of the scheme alone: the text up to and with the first ':'
\* when that ':' is not the first byte, the empty CURIE otherwise
SchemeOnly(x) ==
  IF IndexRune(x, Colon) <= 0 THEN <<>>
  ELSE Slice(x, 0, IndexRune(x, Colon) + 1)

\* C29 as stated: Cut(x, n) with n < 0 does not fail and does not return
\* x: it returns New(Schema(x), ""), dropping the whole reference.
C29_Original ==
  (call.op = "Cut" /\ call.n < 0) =>
    /\ ~call.panic
    /\ call.out # call.in
    /\ call.out = New(Schema(call.in), <<>>)

\* C29 amended: Cut(x, n) with n < 0 does not fail and returns the CURIE of
\* the scheme of x alone, which is New(Schema(x), ""), whatever the
\* reference; it does not return x when the reference of x is not empty.
C29_NegativeCutDropsReference ==
  (call.op = "Cut" /\ call.n < 0) =>
    /\ ~call.panic
    /\ call.out = SchemeOnly(call.in)
    /\ call.out = New(Schema(call.in), <<>>)
    /\ Reference(call.in) # <<>> => call.out # call.in

C29_Witness ==
  /\ call.op = "Cut"
  /\ call.n = -1
  /\ call.in = <<97, Colon, 97, Slash, 97>>
  /\ call.out = <<97, Colon>>

\* C30 as stated: Join(Join(x, a), b) = Join(x, a, b) for every x and all
\* segments a and b.
C30_Original ==
  (call.op = "Join" /\ Len(call.segments) = 2) =>
    Join(Join(call.in, <<call.segments[1]>>), <<call.segments[2]>>) = call.out

\* C30 amended: Join(Join(x, a), b) = Join(x, a, b) for every x and all
\* segments a and b, where x has a non-empty scheme, or neither the
\* reference of x nor a holds ':'.
C30_JoinComposes ==
  (/\ call.op = "Join"
   /\ Len(call.segments) = 2
   /\ \/ Schema(call.in) # <<>>
      \/ ColonFree(Reference(call.in)) /\ ColonFree(call.segments[1])) =>
    Join(Join(call.in, <<call.segments[1]>>), <<call.segments[2]>>) = call.out

C30_Witness ==
  /\ call.op = "Join"
  /\ call.in = <<97, Colon, 97>>
  /\ call.segments = <<<<Colon>>, <<97, Slash, 97>>>>
  /\ call.out = <<97, Colon, 97, Slash, Colon, Slash, 97, Slash, 97>>
  /\ Join(Join(call.in, <<<<Colon>>>>), <<<<97, Slash, 97>>>>) = call.out

====
